---- MODULE Spec2Model ----
(***************************************************************************)
(* Alarm scheduling of the medication reminder app.                        *)
(*                                                                         *)
(* State: the two stored collections of MedicationManager (AsyncStorage    *)
(* keys 'medications' and 'medication_alarms'), the notifications that     *)
(* expo-notifications holds scheduled, the calls to expo-notifications     *)
(* that were issued and have not resolved yet, and the async handlers      *)
(* (tasks) with their position and locals.  A handler advances one await   *)
(* at a time.                                                              *)
(***************************************************************************)
EXTENDS Integers, Sequences, FiniteSets, TLC

VARIABLES
  medications,   \* AsyncStorage 'medications': sequence of Medication
  alarms,        \* AsyncStorage 'medication_alarms': sequence of MedicationAlarm
  scheduled,     \* expo-notifications: the scheduled notification requests
  pending,       \* calls to expo-notifications issued and not yet resolved
  clock,         \* Date.now()
  alarmService,  \* App.js state `alarmService` (FALSE models null)
  isLoading,     \* App.js state `isLoading`
  tasks,         \* the running async handlers
  lastSync,      \* ghost: what the latest reschedule left scheduled, while
                 \* nothing else has changed the stored collections or the
                 \* scheduled notifications since
  history,       \* AsyncStorage 'medication_history': sequence of MedicationHistory
  now,           \* new Date(): the calendar day and the minute of the day
  handlers       \* AlarmService: the notification listeners, the navigation
                 \* reference and the timers the listeners have started

vars == <<medications, alarms, scheduled, pending, clock, alarmService,
          isLoading, tasks, lastSync, history, now, handlers>>

----------------------------------------------------------------------------
(* Bounds of the model *)

MaxMeds == 2      \* stored medications
MaxAlarms == 2    \* stored alarms
MaxClock == 4     \* values Date.now() takes
MaxHistory == 2   \* stored history entries
MaxDay == 4       \* the last calendar day (days are numbered, day 0 a Sunday)
MaxWeekDay == 9   \* the last calendar day where a whole week is looked at
MaxPills == 3     \* the pill count a refill may reach

Tasks == {"A", "B"}

----------------------------------------------------------------------------
(* Strings are sequences of one-character strings. *)

Digits == <<"0", "1", "2", "3", "4", "5", "6", "7", "8", "9">>

IsDigit(c) == \E i \in 1..10 : Digits[i] = c

DigitVal(c) == (CHOOSE i \in 1..10 : Digits[i] = c) - 1

RECURSIVE DecimalValue(_)
DecimalValue(s) ==
  IF s = <<>> THEN 0
  ELSE DecimalValue(SubSeq(s, 1, Len(s) - 1)) * 10 + DigitVal(s[Len(s)])

\* A JavaScript number: NaN or an integer value.
NaN == [nan |-> TRUE, val |-> 0]
Num(n) == [nan |-> FALSE, val |-> n]

\* Number(s) for strings over digits, ':' and letters: '' is 0, a digit
\* string is its decimal value, anything else is NaN.
ToNumber(s) ==
  IF s = <<>> THEN Num(0)
  ELSE IF \A i \in 1..Len(s) : IsDigit(s[i]) THEN Num(DecimalValue(s))
  ELSE NaN

\* the digits a string begins with
RECURSIVE DigitPrefix(_)
DigitPrefix(s) ==
  IF s # <<>> /\ IsDigit(Head(s)) THEN <<Head(s)>> \o DigitPrefix(Tail(s)) ELSE <<>>

\* parseInt(s, 10): an optional sign, then the digits the string begins
\* with; NaN when there is none
ParseInt(s) ==
  LET negative == s # <<>> /\ Head(s) = "-"
      digits   == DigitPrefix(IF negative THEN Tail(s) ELSE s)
  IN IF digits = <<>> THEN NaN
     ELSE Num(IF negative THEN 0 - DecimalValue(digits) ELSE DecimalValue(digits))

\* s.split(sep)
RECURSIVE Split(_, _)
Split(s, sep) ==
  IF \E i \in 1..Len(s) : s[i] = sep
  THEN LET i == CHOOSE k \in 1..Len(s) :
                  s[k] = sep /\ \A j \in 1..(k - 1) : s[j] # sep
       IN <<SubSeq(s, 1, i - 1)>> \o Split(SubSeq(s, i + 1, Len(s)), sep)
  ELSE <<s>>

\* const [hours, minutes] = alarm.time.split(':').map(Number);
\* a missing element is undefined, for which isNaN is true.
ParseTime(time) ==
  LET parts == Split(time, ":")
  IN [hours   |-> IF Len(parts) >= 1 THEN ToNumber(parts[1]) ELSE NaN,
      minutes |-> IF Len(parts) >= 2 THEN ToNumber(parts[2]) ELSE NaN]

\* (the validation with the upper bound of the hour left out)
InvalidTimeLax(hm) ==
  \/ hm.hours.nan
  \/ hm.minutes.nan
  \/ hm.hours.val < 0
  \/ hm.minutes.val < 0
  \/ hm.minutes.val > 59

\* isNaN(hours) || isNaN(minutes) || hours < 0 || hours > 23 || minutes < 0 || minutes > 59
InvalidTime(hm) ==
  \/ hm.hours.nan
  \/ hm.minutes.nan
  \/ hm.hours.val < 0
  \/ hm.hours.val > 23
  \/ hm.minutes.val < 0
  \/ hm.minutes.val > 59

\* (the numbering handed on as it is)
ExpoWeekdaySame(dayOfWeek) == dayOfWeek

\* Monday=1..Sunday=7  ->  expo-notifications Sunday=1..Saturday=7
ExpoWeekday(dayOfWeek) == IF dayOfWeek = 7 THEN 1 ELSE dayOfWeek + 1

\* moment().day() of a calendar day: 0 = Sunday .. 6 = Saturday
JsDay(day) == day % 7

\* the weekday of a calendar day as expo-notifications numbers it when it
\* matches a calendar trigger: 1 = Sunday .. 7 = Saturday
CalendarWeekday(day) == JsDay(day) + 1

\* const dayOfWeek = today.day() === 0 ? 7 : today.day();
OurDayOfJs(jsDay) == IF jsDay = 0 THEN 7 ELSE jsDay

\* const ourDays = alarm.daysOfWeek.map(d => d === 7 ? 0 : d);
JsDayOfOurs(d) == IF d = 7 THEN 0 ELSE d

RECURSIVE Flatten(_)
Flatten(ss) == IF ss = <<>> THEN <<>> ELSE Head(ss) \o Flatten(Tail(ss))

Range(s) == {s[i] : i \in 1..Len(s)}

----------------------------------------------------------------------------
(* Inputs: the alarmData objects handed to createAlarm / updateAlarm.  A   *)
(* time of "" and an isEnabled of "undefined" stand for an absent field.   *)

DefaultTime == <<"0", "8", ":", "0", "0">>

AlarmInputs ==
  { [time |-> <<>>, daysOfWeek |-> <<1>>, isEnabled |-> "undefined"],
    [time |-> <<"2", "1", ":", "0", "5">>, daysOfWeek |-> <<3, 7>>, isEnabled |-> "true"],
    [time |-> <<"2", "5", ":", "0", "0">>, daysOfWeek |-> <<1>>, isEnabled |-> "true"],
    [time |-> <<"2", "1", ":", "0", "5">>, daysOfWeek |-> <<1, 8>>, isEnabled |-> "true"],
    [time |-> <<"2", "1", ":", "0", "5">>, daysOfWeek |-> <<>>, isEnabled |-> "true"],
    [time |-> <<"7", ":", "5", "x">>, daysOfWeek |-> <<2>>, isEnabled |-> "true"] }

\* the text of the "Amount of Pills" field: its preset, and what can be typed
\* or pasted into it
PresetPills == {<<"3", "0">>}
PillInputs == {<<>>, <<"2">>, <<"-", "1">>}

\* the text of the "Number of Pills to Add" field
RefillInputs == {<<>>, <<"1">>, <<"-", "2">>}

\* new Date(): calendar day 3 is a Wednesday; the minutes of the day the
\* model looks at are 08:05, 08:20 and 21:05
TimesOfDay == {485, 500, 1265}
FirstNow == [day |-> 3, minute |-> 485]

NoMed == [id |-> 0, alarms |-> <<>>, pillCount |-> 0]
NoData == [time |-> <<>>, daysOfWeek |-> <<>>, isEnabled |-> "undefined"]
NoAlarm == [id |-> 0, medicationId |-> 0, time |-> <<>>, daysOfWeek |-> <<>>,
            isEnabled |-> FALSE]

\* newAlarm of createAlarm
NewAlarm(id, medicationId, alarmData) ==
  [id           |-> id,
   medicationId |-> medicationId,
   time         |-> IF alarmData.time = <<>> THEN DefaultTime ELSE alarmData.time,
   isEnabled    |-> IF alarmData.isEnabled # "undefined"
                    THEN alarmData.isEnabled = "true" ELSE TRUE,
   daysOfWeek   |-> alarmData.daysOfWeek]

----------------------------------------------------------------------------
(* expo-notifications *)

\* the request scheduleAlarmNotification hands to scheduleNotificationAsync
Trigger(medication, alarm, hm, dayOfWeek) ==
  [identifier   |-> <<"alarm", alarm.id, dayOfWeek>>,
   weekday      |-> ExpoWeekday(dayOfWeek),
   hour         |-> hm.hours.val,
   minute       |-> hm.minutes.val,
   repeats      |-> TRUE,
   medicationId |-> medication.id,
   alarmId      |-> alarm.id,
   alarmTime    |-> alarm.time]

\* the one-off request of the alarm screen's snooze: no identifier is given,
\* expo-notifications generates one
SnoozeTrigger(fired) ==
  [identifier   |-> <<"generated", fired.alarmId, 0>>,
   weekday      |-> 0,
   hour         |-> 0,
   minute       |-> 0,
   repeats      |-> FALSE,
   medicationId |-> fired.medicationId,
   alarmId      |-> fired.alarmId,
   alarmTime    |-> fired.alarmTime]

\* (a request added whatever its identifier)
RegisterAppend(sched, request) == sched \cup {request}

\* scheduleNotificationAsync resolved: a request replaces the scheduled
\* request of the same identifier
Register(sched, request) ==
  {r \in sched : r.identifier # request.identifier} \cup {request}

\* (a cancel that leaves the one-off notifications scheduled)
CancelRecurringOnly(sched) == {r \in sched : ~r.repeats}

\* cancelAllScheduledNotificationsAsync resolved

CancelAll(sched) == {}

----------------------------------------------------------------------------
(* rescheduleAllMedications, the synchronous part between two awaits *)

\* loadMedications / loadAlarms: the stored collection, parsed
LoadMedications == medications
LoadAlarms == alarms

\* (the filter with isEnabled left out)
MedicationAlarmsIgnoringEnabled(allAlarms, medication) ==
  SelectSeq(allAlarms, LAMBDA a : a.medicationId = medication.id)

\* (allAlarms || []).filter(alarm => alarm.medicationId === medication.id && alarm.isEnabled)
MedicationAlarms(allAlarms, medication) ==
  SelectSeq(allAlarms, LAMBDA a : a.medicationId = medication.id /\ a.isEnabled)

\* (an alarm with a day outside 1..7 skipped as a whole)
DaysToScheduleStrict(alarm) ==
  IF alarm.time = <<>> \/ alarm.daysOfWeek = <<>> THEN <<>>
  ELSE IF InvalidTime(ParseTime(alarm.time)) THEN <<>>
  ELSE IF \E i \in 1..Len(alarm.daysOfWeek) :
             alarm.daysOfWeek[i] < 1 \/ alarm.daysOfWeek[i] > 7 THEN <<>>
  ELSE alarm.daysOfWeek

\* (an empty weekday list taken to mean every day)
DaysToScheduleEmptyDaily(alarm) ==
  IF alarm.time = <<>> THEN <<>>
  ELSE IF InvalidTime(ParseTime(alarm.time)) THEN <<>>
  ELSE IF alarm.daysOfWeek = <<>> THEN <<1, 2, 3, 4, 5, 6, 7>>
  ELSE SelectSeq(alarm.daysOfWeek, LAMBDA d : ~(d < 1 \/ d > 7))

\* the days of one scheduleAlarmNotification call for which a request is
\* issued, in order: none for an empty time or weekday list or an invalid
\* time; a day outside 1..7 is passed over
DaysToSchedule(alarm) ==
  IF alarm.time = <<>> \/ alarm.daysOfWeek = <<>> THEN <<>>
  ELSE IF InvalidTime(ParseTime(alarm.time)) THEN <<>>
  ELSE SelectSeq(alarm.daysOfWeek, LAMBDA d : ~(d < 1 \/ d > 7))

\* the requests of one scheduleAlarmNotification(medication, alarm) call;
\* call is the position of the call in the run
AlarmRequests(medication, alarm, call) ==
  LET days == DaysToSchedule(alarm)
      hm   == ParseTime(alarm.time)
  IN [i \in 1..Len(days) |->
        [call |-> call, request |-> Trigger(medication, alarm, hm, days[i])]]

\* the requests of the two nested loops of rescheduleAllMedications over the
\* snapshots it loaded, in the order they are issued
ResyncPlan(meds, allAlarms) ==
  Flatten([mi \in 1..Len(meds) |->
    LET medicationAlarms == MedicationAlarms(allAlarms, meds[mi])
    IN Flatten([ai \in 1..Len(medicationAlarms) |->
         AlarmRequests(meds[mi], medicationAlarms[ai], <<mi, ai>>)])])

----------------------------------------------------------------------------
(* Tasks: one record per async handler in progress *)

NoEntry == [medicationId |-> 0, alarmId |-> 0, takenAt |-> FirstNow, wasOnTime |-> FALSE]

IdleTask ==
  [op        |-> "idle",    \* the handler
   pc        |-> "idle",    \* the await it stands at
   mid       |-> 0,         \* argument medicationId
   aid       |-> 0,         \* argument alarmId
   data      |-> NoData,    \* argument alarmData
   alarm     |-> NoAlarm,   \* local newAlarm / updatedAlarm
   med       |-> NoMed,     \* local medication (NoMed models null)
   meds      |-> <<>>,      \* local medications
   list      |-> <<>>,      \* local alarms
   queue     |-> <<>>,      \* local medicationAlarms still to delete
   plan      |-> <<>>,      \* the requests the reschedule loops will issue
   pos       |-> 0,         \* position of the loops in plan
   failed    |-> FALSE,     \* the handler threw
   synced    |-> FALSE,     \* history: the handler has run the reschedule
   before    |-> {},        \* history: alarm ids scheduled when the reschedule began
   attempted |-> {},        \* history: requests the reschedule has issued
   rejected  |-> FALSE,     \* history: a request of the reschedule was rejected
   stats     |-> <<>>,      \* local stats of loadStatistics
   success   |-> "none",    \* local success: what decreasePillCount returned
   hist      |-> <<>>,      \* local history of recordMedicationTaken
   entry     |-> NoEntry,   \* local newEntry of recordMedicationTaken
   pre       |-> <<>>,      \* ghost: the stored medications when the handler began,
                            \* then when decreasePillCount was called
   preHist   |-> <<>>,      \* ghost: the stored history when the handler began,
                            \* then when recordMedicationTaken was called
   recorded  |-> FALSE,     \* ghost: recordMedicationTaken has completed
   fault     |-> FALSE,     \* ghost: a storage operation of the handler has failed
   dpFault   |-> FALSE]     \* ghost: a storage operation of decreasePillCount has failed

NoRequest ==
  [identifier |-> <<"none", 0, 0>>, weekday |-> 0, hour |-> 0, minute |-> 0,
   repeats |-> FALSE, medicationId |-> 0, alarmId |-> 0, alarmTime |-> <<>>]

NoSync == [valid |-> FALSE, reg |-> {}]

Set(t, rec) == tasks' = [tasks EXCEPT ![t] = rec]

Busy(t) == tasks[t].op # "idle"

\* the positions of a handler inside rescheduleAllMedications
ResyncPcs == {"cancel", "await", "loadMedications", "loadAlarms", "schedule"}

InResync(t) ==
  /\ tasks[t].pc \in ResyncPcs
  /\ tasks[t].pc = "await" => \E p \in pending : p.task = t /\ p.resume \in ResyncPcs

\* a handler can start: the screens are rendered; in the serialized use the
\* previous handler has finished; otherwise a second handler is started
\* while the first is inside rescheduleAllMedications
CanStart(t, serial) ==
  /\ ~isLoading
  /\ ~Busy(t)
  /\ serial => (t = "A" /\ \A u \in Tasks : ~Busy(u))
  /\ ~serial => IF t = "A" THEN ~Busy("B") ELSE InResync("A")

\* medications.find(m => m.id === medicationId) || null
FindMedication(meds, medicationId) ==
  IF \E i \in 1..Len(meds) : meds[i].id = medicationId
  THEN meds[CHOOSE i \in 1..Len(meds) :
              meds[i].id = medicationId /\ \A j \in 1..(i - 1) : meds[j].id # medicationId]
  ELSE NoMed

\* updateMedication: medications[index] = updatedMedication when found
ReplaceMedication(meds, updated) ==
  IF \E i \in 1..Len(meds) : meds[i].id = updated.id
  THEN LET index == CHOOSE i \in 1..Len(meds) :
                      meds[i].id = updated.id /\ \A j \in 1..(i - 1) : meds[j].id # updated.id
       IN [meds EXCEPT ![index] = updated]
  ELSE meds

\* updateAlarm: alarms[index] = updatedAlarm when found
ReplaceAlarm(list, updated) ==
  IF \E i \in 1..Len(list) : list[i].id = updated.id
  THEN LET index == CHOOSE i \in 1..Len(list) :
                      list[i].id = updated.id /\ \A j \in 1..(i - 1) : list[j].id # updated.id
       IN [list EXCEPT ![index] = updated]
  ELSE list

\* Date.now() values not yet handed out to a handler that will read the clock
ClockLeft ==
  MaxClock - clock
    - Cardinality({u \in Tasks : tasks[u].pc = "ca_getMedication"})

----------------------------------------------------------------------------
(* rescheduleAllMedications (AlarmService), one action per await *)

\* (the cancel issued and not awaited)
ResyncCancelNotAwaited(t) ==
  /\ UNCHANGED handlers
  /\ UNCHANGED <<history, now>>
  /\ tasks[t].pc = "cancel"
  /\ pending' = pending \cup
       {[task |-> t, kind |-> "cancelAll", request |-> NoRequest, resume |-> "none"]}
  /\ Set(t, [tasks[t] EXCEPT !.pc = "loadMedications", !.before = {r.alarmId : r \in scheduled},
                             !.attempted = {}, !.rejected = FALSE])
  /\ UNCHANGED <<medications, alarms, scheduled, clock, alarmService, isLoading, lastSync>>

\* await Notifications.cancelAllScheduledNotificationsAsync(): issued
ResyncCancel(t) ==
  /\ UNCHANGED handlers
  /\ UNCHANGED <<history, now>>
  /\ tasks[t].pc = "cancel"
  /\ pending' = pending \cup
       {[task |-> t, kind |-> "cancelAll", request |-> NoRequest,
         resume |-> "loadMedications"]}
  /\ Set(t, [tasks[t] EXCEPT !.pc = "await", !.before = {r.alarmId : r \in scheduled},
                             !.attempted = {}, !.rejected = FALSE])
  /\ UNCHANGED <<medications, alarms, scheduled, clock, alarmService, isLoading, lastSync>>

\* expo-notifications resolves a cancelAllScheduledNotificationsAsync call
CancelResolves(p) ==
  /\ UNCHANGED handlers
  /\ UNCHANGED <<history, now>>
  /\ p \in pending
  /\ p.kind = "cancelAll"
  /\ scheduled' = CancelAll(scheduled)
  /\ pending' = pending \ {p}
  /\ IF tasks[p.task].pc = "await" /\ p.resume # "none"
     THEN Set(p.task, [tasks[p.task] EXCEPT !.pc = p.resume])
     ELSE UNCHANGED tasks
  /\ UNCHANGED <<medications, alarms, clock, alarmService, isLoading, lastSync>>

\* const medications = await this.medicationManager.loadMedications();
ResyncLoadMedications(t) ==
  /\ UNCHANGED handlers
  /\ UNCHANGED <<history, now>>
  /\ tasks[t].pc = "loadMedications"
  /\ Set(t, [tasks[t] EXCEPT !.pc = "loadAlarms", !.meds = LoadMedications])
  /\ UNCHANGED <<medications, alarms, scheduled, pending, clock, alarmService,
                 isLoading, lastSync>>

\* const allAlarms = await this.medicationManager.loadAlarms();
ResyncLoadAlarms(t) ==
  /\ UNCHANGED handlers
  /\ UNCHANGED <<history, now>>
  /\ tasks[t].pc = "loadAlarms"
  /\ Set(t, [tasks[t] EXCEPT !.pc = "schedule", !.meds = <<>>, !.pos = 1,
                             !.plan = ResyncPlan(tasks[t].meds, LoadAlarms)])
  /\ UNCHANGED <<medications, alarms, scheduled, pending, clock, alarmService,
                 isLoading, lastSync>>

\* await Notifications.scheduleNotificationAsync({...}): issued
ResyncSchedule(t) ==
  /\ UNCHANGED handlers
  /\ UNCHANGED <<history, now>>
  /\ tasks[t].pc = "schedule"
  /\ tasks[t].pos <= Len(tasks[t].plan)
  /\ LET request == tasks[t].plan[tasks[t].pos].request
     IN /\ pending' = pending \cup
             {[task |-> t, kind |-> "schedule", request |-> request,
               resume |-> "schedule"]}
        /\ Set(t, [tasks[t] EXCEPT !.pc = "await",
                                   !.attempted = @ \cup {request}])
  /\ UNCHANGED <<medications, alarms, scheduled, clock, alarmService, isLoading, lastSync>>

\* expo-notifications resolves a scheduleNotificationAsync call of the loops:
\* totalScheduled++ and the next dayOfWeek
ScheduleResolves(p) ==
  /\ UNCHANGED handlers
  /\ UNCHANGED <<history, now>>
  /\ p \in pending
  /\ p.kind = "schedule"
  /\ scheduled' = Register(scheduled, p.request)
  /\ pending' = pending \ {p}
  /\ IF tasks[p.task].pc = "await"
     THEN Set(p.task, [tasks[p.task] EXCEPT !.pc = p.resume, !.pos = @ + 1])
     ELSE UNCHANGED tasks
  /\ UNCHANGED <<medications, alarms, clock, alarmService, isLoading, lastSync>>

\* the first position after pos that belongs to another scheduleAlarmNotification call
AfterCall(plan, pos) ==
  IF \E i \in (pos + 1)..Len(plan) : plan[i].call # plan[pos].call
  THEN CHOOSE i \in (pos + 1)..Len(plan) :
         plan[i].call # plan[pos].call
         /\ \A j \in (pos + 1)..(i - 1) : plan[j].call = plan[pos].call
  ELSE Len(plan) + 1

\* expo-notifications rejects a scheduleNotificationAsync call of the loops:
\* the await throws inside scheduleAlarmNotification's try, whose catch logs
\* and returns, so the loop over the alarm's days ends
ScheduleRejects(p) ==
  /\ UNCHANGED handlers
  /\ UNCHANGED <<history, now>>
  /\ p \in pending
  /\ p.kind = "schedule"
  /\ pending' = pending \ {p}
  /\ IF tasks[p.task].pc = "await"
     THEN Set(p.task, [tasks[p.task] EXCEPT
                         !.pc = p.resume, !.rejected = TRUE,
                         !.pos = AfterCall(tasks[p.task].plan, tasks[p.task].pos)])
     ELSE UNCHANGED tasks
  /\ UNCHANGED <<medications, alarms, scheduled, clock, alarmService, isLoading, lastSync>>

\* the loops are over: rescheduleAllMedications returns, and with it the handler
ResyncReturn(t) ==
  /\ UNCHANGED handlers
  /\ UNCHANGED <<history, now>>
  /\ tasks[t].pc = "schedule"
  /\ tasks[t].pos > Len(tasks[t].plan)
  /\ Set(t, [tasks[t] EXCEPT !.pc = "done", !.synced = TRUE])
  /\ UNCHANGED <<medications, alarms, scheduled, pending, clock, alarmService,
                 isLoading, lastSync>>

\* the handler is over
Finish(t) ==
  /\ UNCHANGED handlers
  /\ UNCHANGED <<history, now>>
  /\ tasks[t].pc = "done"
  /\ Set(t, IdleTask)
  /\ isLoading' = FALSE
  /\ lastSync' = IF tasks[t].synced /\ ~tasks[t].rejected
                 THEN [valid |-> TRUE, reg |-> scheduled] ELSE lastSync
  /\ UNCHANGED <<medications, alarms, scheduled, pending, clock, alarmService>>

----------------------------------------------------------------------------
(* AlarmService.setupNotificationHandlers and the listeners it registers.  *)
(* AlarmService is a singleton of the JavaScript context: its fields, the  *)
(* registered listeners and the running timers outlive the App component   *)
(* when the activity is created again in the same process.                 *)

MaxSetupCalls == 3   \* calls of setupNotificationHandlers that are followed
maxRetries == 10     \* navigateToAlarm: const maxRetries = 10

\* one retry chain of the response listener: setTimeout(navigateToAlarm, 500)
NewChain == [pc |-> "timer", retryCount |-> 0, checks |-> 0, navigations |-> 0]

\* a new JavaScript context: nothing is registered, nothing is mounted
NoHandlers ==
  [ notificationHandlersSetup |-> FALSE,
    received            |-> 0,      \* notification-received listeners
    response            |-> 0,      \* notification-response listeners
    calls               |-> 0,      \* ghost: calls of setupNotificationHandlers
    mounted             |-> FALSE,  \* App's navigationRef.current is set
    navigationRef       |-> FALSE,  \* this.navigationRef && this.navigationRef.current
    receivedTimers      |-> 0,      \* timers of the received listeners
    receivedNavigations |-> 0,      \* ghost: navigations for the latest fired alarm
    taps                |-> <<>> ]  \* the chains started by the latest tap

\* the App component is mounted again in the same context: the references
\* of the unmounted navigation container are null
Remounted(h) == [h EXCEPT !.mounted = FALSE, !.navigationRef = FALSE]

\* setupNotificationHandlers registers both listeners whatever the flag says
SetupHandlersAlways(h) ==
  [h EXCEPT !.notificationHandlersSetup = TRUE,
            !.received = @ + 1,
            !.response = @ + 1,
            !.calls = @ + 1]

\* setupNotificationHandlers()
SetupNotificationHandlers(h) ==
  IF h.notificationHandlersSetup
  THEN [h EXCEPT !.calls = @ + 1]
  ELSE [h EXCEPT !.notificationHandlersSetup = TRUE,
                 !.received = @ + 1,
                 !.response = @ + 1,
                 !.calls = @ + 1]

\* setNavigationRef(navigationRef), called with the reference of the
\* mounted container
SetNavigationRef(h) == [h EXCEPT !.navigationRef = h.mounted]

\* the NavigationContainer is rendered once isLoading is false
NavigationReady ==
  /\ ~isLoading
  /\ ~handlers.mounted
  /\ handlers' = [handlers EXCEPT !.mounted = TRUE]
  /\ UNCHANGED <<medications, alarms, scheduled, pending, clock, alarmService,
                 isLoading, tasks, lastSync, history, now>>

\* App.js effect on [alarmService]: setupNavigation runs from its timer
SetupNavigation ==
  /\ alarmService
  /\ handlers.calls < MaxSetupCalls
  /\ IF handlers.mounted
     THEN handlers' = SetupNotificationHandlers(SetNavigationRef(handlers))
     ELSE UNCHANGED handlers     \* retried after 200 ms, or given up
  /\ UNCHANGED <<medications, alarms, scheduled, pending, clock, alarmService,
                 isLoading, tasks, lastSync, history, now>>

\* NavigationContainer onReady
OnReady ==
  /\ handlers.mounted
  /\ alarmService
  /\ handlers.calls < MaxSetupCalls
  /\ handlers' = SetupNotificationHandlers(SetNavigationRef(handlers))
  /\ UNCHANGED <<medications, alarms, scheduled, pending, clock, alarmService,
                 isLoading, tasks, lastSync, history, now>>

\* a notification is delivered while the app is in the foreground: every
\* received listener starts its 100 ms timer when the payload has a
\* medicationId
NotificationReceived(hasMedicationId) ==
  /\ handlers.receivedTimers = 0
  /\ handlers' = [handlers EXCEPT
                    !.receivedTimers = IF hasMedicationId THEN handlers.received ELSE 0,
                    !.receivedNavigations = 0]
  /\ UNCHANGED <<medications, alarms, scheduled, pending, clock, alarmService,
                 isLoading, tasks, lastSync, history, now>>

\* the timer of a received listener fires
ReceivedTimerFires ==
  /\ handlers.receivedTimers > 0
  /\ handlers' = [handlers EXCEPT
                    !.receivedTimers = @ - 1,
                    !.receivedNavigations =
                       IF handlers.navigationRef THEN @ + 1 ELSE @]
  /\ UNCHANGED <<medications, alarms, scheduled, pending, clock, alarmService,
                 isLoading, tasks, lastSync, history, now>>

\* the user taps a notification: every response listener starts a chain
\* when the payload has a medicationId
NotificationResponse(hasMedicationId) ==
  /\ \A i \in 1..Len(handlers.taps) : handlers.taps[i].pc # "timer"
  /\ handlers' = [handlers EXCEPT
                    !.taps = IF hasMedicationId
                             THEN [i \in 1..handlers.response |-> NewChain]
                             ELSE <<>>]
  /\ UNCHANGED <<medications, alarms, scheduled, pending, clock, alarmService,
                 isLoading, tasks, lastSync, history, now>>

\* navigateToAlarm retries while retryCount <= maxRetries
CheckOnceMore(chain, available) ==
  IF available
  THEN [chain EXCEPT !.pc = "navigated", !.checks = @ + 1, !.navigations = @ + 1]
  ELSE IF chain.retryCount <= maxRetries
       THEN [chain EXCEPT !.retryCount = @ + 1, !.checks = @ + 1]
       ELSE [chain EXCEPT !.pc = "gaveUp", !.checks = @ + 1]

\* navigateToAlarm(retryCount): one check of the navigation reference
Check(chain, available) ==
  IF available
  THEN [chain EXCEPT !.pc = "navigated", !.checks = @ + 1, !.navigations = @ + 1]
  ELSE IF chain.retryCount < maxRetries
       THEN [chain EXCEPT !.retryCount = @ + 1, !.checks = @ + 1]
       ELSE [chain EXCEPT !.pc = "gaveUp", !.checks = @ + 1]

\* the timer of a chain fires
NavigateToAlarm(i) ==
  /\ i \in 1..Len(handlers.taps)
  /\ handlers.taps[i].pc = "timer"
  /\ handlers' = [handlers EXCEPT
                    !.taps[i] = Check(handlers.taps[i], handlers.navigationRef)]
  /\ UNCHANGED <<medications, alarms, scheduled, pending, clock, alarmService,
                 isLoading, tasks, lastSync, history, now>>

----------------------------------------------------------------------------
(* App.js initializeApp: the app is launched while nothing is in progress. *)
(* The stored collections and the scheduled notifications outlive the      *)
(* process; the React state does not.                                      *)

\* alarmServiceInstance.initialize() throws: setAlarmService is not reached
LaunchInitializeFails ==
  /\ UNCHANGED <<history, now>>
  /\ handlers' \in {NoHandlers, Remounted(handlers)}
  /\ \A u \in Tasks : ~Busy(u)
  /\ pending = {}
  /\ alarmService' = FALSE
  /\ isLoading' = FALSE
  /\ UNCHANGED <<medications, alarms, scheduled, pending, clock, tasks, lastSync>>

\* initialize() returns: setAlarmService(alarmServiceInstance), then the
\* reschedule; the screens are rendered when it is over
Launch ==
  /\ UNCHANGED <<history, now>>
  /\ handlers' \in {NoHandlers, Remounted(handlers)}
  /\ \A u \in Tasks : ~Busy(u)
  /\ pending = {}
  /\ alarmService' = TRUE
  /\ isLoading' = TRUE
  /\ Set("A", [IdleTask EXCEPT !.op = "initializeApp", !.pc = "cancel"])
  /\ UNCHANGED <<medications, alarms, scheduled, pending, clock, lastSync>>

----------------------------------------------------------------------------
(* Medications screen, saveMedication -> MedicationManager.addMedication *)

\* const count = Number.parseInt(pillCount, 10);
\* newMed = { id: Date.now().toString(), pillCount: Number.isNaN(count) ? 0 : count, alarms: [] }
SaveMedication(t, serial, pillCount) ==
  /\ UNCHANGED handlers
  /\ UNCHANGED <<history, now>>
  /\ CanStart(t, serial)
  /\ Len(medications) < MaxMeds
  /\ ClockLeft >= 1
  /\ LET count == ParseInt(pillCount)
     IN Set(t, [IdleTask EXCEPT !.op = "saveMedication", !.pc = "sm_load",
                  !.med = [id |-> clock, alarms |-> <<>>,
                           pillCount |-> IF count.nan THEN 0 ELSE count.val]])
  /\ clock' = clock + 1
  /\ UNCHANGED <<medications, alarms, scheduled, pending, alarmService, isLoading, lastSync>>

SmLoad(t) ==
  /\ UNCHANGED handlers
  /\ UNCHANGED <<history, now>>
  /\ tasks[t].pc = "sm_load"
  /\ Set(t, [tasks[t] EXCEPT !.pc = "sm_save", !.meds = LoadMedications])
  /\ UNCHANGED <<medications, alarms, scheduled, pending, clock, alarmService,
                 isLoading, lastSync>>

SmSave(t) ==
  /\ UNCHANGED handlers
  /\ UNCHANGED <<history, now>>
  /\ tasks[t].pc = "sm_save"
  /\ medications' = Append(tasks[t].meds, tasks[t].med)
  /\ Set(t, [tasks[t] EXCEPT !.pc = "done", !.meds = <<>>])
  /\ lastSync' = NoSync
  /\ UNCHANGED <<alarms, scheduled, pending, clock, alarmService, isLoading>>

\* addMedication when AsyncStorage.getItem rejects: loadMedications catches
\* and returns [], and addMedication goes on with it
SmLoadFails(t) ==
  /\ UNCHANGED handlers
  /\ tasks[t].pc = "sm_load"
  /\ Set(t, [tasks[t] EXCEPT !.pc = "sm_save", !.meds = <<>>, !.fault = TRUE])
  /\ UNCHANGED <<medications, alarms, scheduled, pending, clock, alarmService,
                 isLoading, lastSync, history, now>>

\* addMedication when AsyncStorage.setItem rejects: saveMedications and
\* addMedication rethrow, the catch of saveMedication ends the handler
SmSaveFails(t) ==
  /\ UNCHANGED handlers
  /\ tasks[t].pc = "sm_save"
  /\ Set(t, [tasks[t] EXCEPT !.pc = "done", !.meds = <<>>, !.failed = TRUE,
                             !.fault = TRUE])
  /\ UNCHANGED <<medications, alarms, scheduled, pending, clock, alarmService,
                 isLoading, lastSync, history, now>>

----------------------------------------------------------------------------
(* AlarmService.createAlarm (called by the Medications screen's saveAlarm) *)

CreateAlarm(t, serial, medicationId, alarmData) ==
  /\ UNCHANGED handlers
  /\ UNCHANGED <<history, now>>
  /\ CanStart(t, serial)
  /\ Len(alarms) < MaxAlarms
  /\ ClockLeft >= 1
  /\ Set(t, [IdleTask EXCEPT !.op = "createAlarm", !.pc = "ca_getMedication",
                             !.mid = medicationId, !.data = alarmData])
  /\ UNCHANGED <<medications, alarms, scheduled, pending, clock, alarmService,
                 isLoading, lastSync>>

\* const medication = await getMedication(medicationId); throw when null;
\* newAlarm = { id: Date.now().toString(), ... }
CaGetMedication(t) ==
  /\ UNCHANGED handlers
  /\ UNCHANGED <<history, now>>
  /\ tasks[t].pc = "ca_getMedication"
  /\ LET medication == FindMedication(LoadMedications, tasks[t].mid)
     IN IF medication = NoMed
        THEN /\ Set(t, [tasks[t] EXCEPT !.pc = "done", !.failed = TRUE])
             /\ UNCHANGED clock
        ELSE /\ Set(t, [tasks[t] EXCEPT
                          !.pc = "ca_addLoad", !.med = medication,
                          !.alarm = NewAlarm(clock, tasks[t].mid, tasks[t].data)])
             /\ clock' = clock + 1
  /\ UNCHANGED <<medications, alarms, scheduled, pending, alarmService, isLoading, lastSync>>

\* the same step when Date.now() has not advanced since it was last read:
\* the new alarm gets the id that was handed out last
CaGetMedicationSameMs(t) ==
  /\ UNCHANGED handlers
  /\ tasks[t].pc = "ca_getMedication"
  /\ clock > 1
  /\ LET medication == FindMedication(LoadMedications, tasks[t].mid)
     IN /\ medication # NoMed
        /\ Len(medication.alarms) < MaxAlarms
        /\ Set(t, [tasks[t] EXCEPT
                     !.pc = "ca_addLoad", !.med = medication,
                     !.alarm = NewAlarm(clock - 1, tasks[t].mid, tasks[t].data)])
  /\ UNCHANGED <<medications, alarms, scheduled, pending, clock, alarmService,
                 isLoading, lastSync, history, now>>

\* addAlarm: const alarms = await this.loadAlarms();
CaAddLoad(t) ==
  /\ UNCHANGED handlers
  /\ UNCHANGED <<history, now>>
  /\ tasks[t].pc = "ca_addLoad"
  /\ Set(t, [tasks[t] EXCEPT !.pc = "ca_addSave", !.list = LoadAlarms])
  /\ UNCHANGED <<medications, alarms, scheduled, pending, clock, alarmService,
                 isLoading, lastSync>>

\* addAlarm when AsyncStorage.getItem rejects: loadAlarms catches and
\* returns [], and addAlarm goes on with it
CaAddLoadFails(t) ==
  /\ UNCHANGED handlers
  /\ tasks[t].pc = "ca_addLoad"
  /\ Set(t, [tasks[t] EXCEPT !.pc = "ca_addSave", !.list = <<>>, !.fault = TRUE])
  /\ UNCHANGED <<medications, alarms, scheduled, pending, clock, alarmService,
                 isLoading, lastSync, history, now>>

\* addAlarm when AsyncStorage.setItem rejects: saveAlarms, addAlarm and
\* createAlarm rethrow, the catch of saveAlarm ends the handler
CaAddSaveFails(t) ==
  /\ UNCHANGED handlers
  /\ tasks[t].pc = "ca_addSave"
  /\ Set(t, [tasks[t] EXCEPT !.pc = "done", !.list = <<>>, !.failed = TRUE,
                             !.fault = TRUE])
  /\ UNCHANGED <<medications, alarms, scheduled, pending, clock, alarmService,
                 isLoading, lastSync, history, now>>

\* addAlarm: alarms.push(alarm); await this.saveAlarms(alarms);
CaAddSave(t) ==
  /\ UNCHANGED handlers
  /\ UNCHANGED <<history, now>>
  /\ tasks[t].pc = "ca_addSave"
  /\ alarms' = Append(tasks[t].list, tasks[t].alarm)
  /\ Set(t, [tasks[t] EXCEPT !.pc = "ca_updLoad", !.list = <<>>])
  /\ lastSync' = NoSync
  /\ UNCHANGED <<medications, scheduled, pending, clock, alarmService, isLoading>>

\* updateMedication: const medications = await this.loadMedications();
CaUpdLoad(t) ==
  /\ UNCHANGED handlers
  /\ UNCHANGED <<history, now>>
  /\ tasks[t].pc = "ca_updLoad"
  /\ Set(t, [tasks[t] EXCEPT !.pc = "ca_updSave", !.meds = LoadMedications])
  /\ UNCHANGED <<medications, alarms, scheduled, pending, clock, alarmService,
                 isLoading, lastSync>>

\* updateMedication({...medication, alarms: [...medication.alarms, newAlarm]}):
\* saved when the medication is found, then the reschedule
CaUpdSave(t) ==
  /\ UNCHANGED handlers
  /\ UNCHANGED <<history, now>>
  /\ tasks[t].pc = "ca_updSave"
  /\ LET updated == [tasks[t].med EXCEPT !.alarms = Append(@, tasks[t].alarm.id)]
     IN IF \E i \in 1..Len(tasks[t].meds) : tasks[t].meds[i].id = updated.id
        THEN medications' = ReplaceMedication(tasks[t].meds, updated)
        ELSE UNCHANGED medications
  /\ Set(t, [tasks[t] EXCEPT !.pc = "cancel", !.meds = <<>>, !.med = NoMed])
  /\ lastSync' = NoSync
  /\ UNCHANGED <<alarms, scheduled, pending, clock, alarmService, isLoading>>

----------------------------------------------------------------------------
(* Medications screen, deleteAlarm(alarmId, medicationId): the Delete      *)
(* button of an alarm listed under a medication                            *)

\* if (alarmService) { await alarmService.rescheduleAllMedications(); }
AfterStorageChange == IF alarmService THEN "cancel" ELSE "done"

DeleteAlarm(t, serial, medicationId, alarmId) ==
  /\ UNCHANGED handlers
  /\ UNCHANGED <<history, now>>
  /\ CanStart(t, serial)
  /\ Set(t, [IdleTask EXCEPT !.op = "deleteAlarm", !.pc = "da_delLoad",
                             !.mid = medicationId, !.aid = alarmId])
  /\ UNCHANGED <<medications, alarms, scheduled, pending, clock, alarmService,
                 isLoading, lastSync>>

\* MedicationManager.deleteAlarm: const alarms = await this.loadAlarms();
DaDelLoad(t) ==
  /\ UNCHANGED handlers
  /\ UNCHANGED <<history, now>>
  /\ tasks[t].pc = "da_delLoad"
  /\ Set(t, [tasks[t] EXCEPT !.pc = "da_delSave", !.list = LoadAlarms])
  /\ UNCHANGED <<medications, alarms, scheduled, pending, clock, alarmService,
                 isLoading, lastSync>>

\* MedicationManager.deleteAlarm: saveAlarms(alarms.filter(a => a.id !== alarmId))
DaDelSave(t) ==
  /\ UNCHANGED handlers
  /\ UNCHANGED <<history, now>>
  /\ tasks[t].pc = "da_delSave"
  /\ alarms' = SelectSeq(tasks[t].list, LAMBDA a : a.id # tasks[t].aid)
  /\ Set(t, [tasks[t] EXCEPT !.pc = "da_getMedication", !.list = <<>>])
  /\ lastSync' = NoSync
  /\ UNCHANGED <<medications, scheduled, pending, clock, alarmService, isLoading>>

\* const medication = await getMedication(medicationId); if (medication) ...
DaGetMedication(t) ==
  /\ UNCHANGED handlers
  /\ UNCHANGED <<history, now>>
  /\ tasks[t].pc = "da_getMedication"
  /\ LET medication == FindMedication(LoadMedications, tasks[t].mid)
     IN IF medication = NoMed
        THEN Set(t, [tasks[t] EXCEPT !.pc = AfterStorageChange])
        ELSE Set(t, [tasks[t] EXCEPT !.pc = "da_updLoad", !.med = medication])
  /\ UNCHANGED <<medications, alarms, scheduled, pending, clock, alarmService,
                 isLoading, lastSync>>

DaUpdLoad(t) ==
  /\ UNCHANGED handlers
  /\ UNCHANGED <<history, now>>
  /\ tasks[t].pc = "da_updLoad"
  /\ Set(t, [tasks[t] EXCEPT !.pc = "da_updSave", !.meds = LoadMedications])
  /\ UNCHANGED <<medications, alarms, scheduled, pending, clock, alarmService,
                 isLoading, lastSync>>

\* updateMedication({...medication, alarms: medication.alarms.filter(a => a.id !== alarmId)});
\* if (alarmService) await alarmService.rescheduleAllMedications();
DaUpdSave(t) ==
  /\ UNCHANGED handlers
  /\ UNCHANGED <<history, now>>
  /\ tasks[t].pc = "da_updSave"
  /\ LET updated == [tasks[t].med EXCEPT
                       !.alarms = SelectSeq(@, LAMBDA id : id # tasks[t].aid)]
     IN IF \E i \in 1..Len(tasks[t].meds) : tasks[t].meds[i].id = updated.id
        THEN medications' = ReplaceMedication(tasks[t].meds, updated)
        ELSE UNCHANGED medications
  /\ Set(t, [tasks[t] EXCEPT !.pc = AfterStorageChange, !.meds = <<>>, !.med = NoMed])
  /\ lastSync' = NoSync
  /\ UNCHANGED <<alarms, scheduled, pending, clock, alarmService, isLoading>>

----------------------------------------------------------------------------
(* AlarmService.cancelAlarm(alarmId): MedicationManager.deleteAlarm, then   *)
(* rescheduleAllMedications                                                *)

CancelAlarm(t, serial, alarmId) ==
  /\ UNCHANGED handlers
  /\ CanStart(t, serial)
  /\ Set(t, [IdleTask EXCEPT !.op = "cancelAlarm", !.pc = "cn_delLoad", !.aid = alarmId])
  /\ UNCHANGED <<medications, alarms, scheduled, pending, clock, alarmService,
                 isLoading, lastSync, history, now>>

\* MedicationManager.deleteAlarm: const alarms = await this.loadAlarms();
CnDelLoad(t) ==
  /\ UNCHANGED handlers
  /\ tasks[t].pc = "cn_delLoad"
  /\ Set(t, [tasks[t] EXCEPT !.pc = "cn_delSave", !.list = LoadAlarms])
  /\ UNCHANGED <<medications, alarms, scheduled, pending, clock, alarmService,
                 isLoading, lastSync, history, now>>

\* saveAlarms(alarms.filter(a => a.id !== alarmId));
\* await this.rescheduleAllMedications()
CnDelSave(t) ==
  /\ UNCHANGED handlers
  /\ tasks[t].pc = "cn_delSave"
  /\ alarms' = SelectSeq(tasks[t].list, LAMBDA a : a.id # tasks[t].aid)
  /\ Set(t, [tasks[t] EXCEPT !.pc = "cancel", !.list = <<>>])
  /\ lastSync' = NoSync
  /\ UNCHANGED <<medications, scheduled, pending, clock, alarmService, isLoading,
                 history, now>>

----------------------------------------------------------------------------
(* Medications screen, deleteMedication(medicationId) *)

DeleteMedication(t, serial, medicationId) ==
  /\ UNCHANGED handlers
  /\ UNCHANGED <<history, now>>
  /\ CanStart(t, serial)
  /\ Set(t, [IdleTask EXCEPT !.op = "deleteMedication", !.pc = "dm_loadAlarms",
                             !.mid = medicationId])
  /\ UNCHANGED <<medications, alarms, scheduled, pending, clock, alarmService,
                 isLoading, lastSync>>

\* allAlarms = await loadAlarms();
\* medicationAlarms = allAlarms.filter(alarm => alarm.medicationId === medicationId)
DmLoadAlarms(t) ==
  /\ UNCHANGED handlers
  /\ UNCHANGED <<history, now>>
  /\ tasks[t].pc = "dm_loadAlarms"
  /\ LET medicationAlarms ==
           SelectSeq(LoadAlarms, LAMBDA a : a.medicationId = tasks[t].mid)
     IN Set(t, [tasks[t] EXCEPT
                  !.queue = [i \in 1..Len(medicationAlarms) |-> medicationAlarms[i].id],
                  !.pc = IF medicationAlarms = <<>> THEN "dm_medLoad" ELSE "dm_delLoad"])
  /\ UNCHANGED <<medications, alarms, scheduled, pending, clock, alarmService,
                 isLoading, lastSync>>

\* for (const alarm of medicationAlarms) await medicationManager.deleteAlarm(alarm.id)
DmDelLoad(t) ==
  /\ UNCHANGED handlers
  /\ UNCHANGED <<history, now>>
  /\ tasks[t].pc = "dm_delLoad"
  /\ Set(t, [tasks[t] EXCEPT !.pc = "dm_delSave", !.list = LoadAlarms])
  /\ UNCHANGED <<medications, alarms, scheduled, pending, clock, alarmService,
                 isLoading, lastSync>>

DmDelSave(t) ==
  /\ UNCHANGED handlers
  /\ UNCHANGED <<history, now>>
  /\ tasks[t].pc = "dm_delSave"
  /\ alarms' = SelectSeq(tasks[t].list, LAMBDA a : a.id # Head(tasks[t].queue))
  /\ Set(t, [tasks[t] EXCEPT
               !.list = <<>>, !.queue = Tail(@),
               !.pc = IF Tail(tasks[t].queue) = <<>> THEN "dm_medLoad" ELSE "dm_delLoad"])
  /\ lastSync' = NoSync
  /\ UNCHANGED <<medications, scheduled, pending, clock, alarmService, isLoading>>

\* MedicationManager.deleteMedication: const medications = await this.loadMedications();
DmMedLoad(t) ==
  /\ UNCHANGED handlers
  /\ UNCHANGED <<history, now>>
  /\ tasks[t].pc = "dm_medLoad"
  /\ Set(t, [tasks[t] EXCEPT !.pc = "dm_medSave", !.meds = LoadMedications])
  /\ UNCHANGED <<medications, alarms, scheduled, pending, clock, alarmService,
                 isLoading, lastSync>>

\* saveMedications(medications.filter(m => m.id !== medicationId));
\* if (alarmService) await alarmService.rescheduleAllMedications();
DmMedSave(t) ==
  /\ UNCHANGED handlers
  /\ UNCHANGED <<history, now>>
  /\ tasks[t].pc = "dm_medSave"
  /\ medications' = SelectSeq(tasks[t].meds, LAMBDA m : m.id # tasks[t].mid)
  /\ Set(t, [tasks[t] EXCEPT !.pc = AfterStorageChange, !.meds = <<>>])
  /\ lastSync' = NoSync
  /\ UNCHANGED <<alarms, scheduled, pending, clock, alarmService, isLoading>>

----------------------------------------------------------------------------
(* Statistics screen, handleResetData *)

ResetData(t, serial) ==
  /\ UNCHANGED handlers
  /\ UNCHANGED <<history, now>>
  /\ CanStart(t, serial)
  /\ Set(t, [IdleTask EXCEPT !.op = "handleResetData", !.pc = "rs_cancel",
                             !.pre = medications, !.preHist = history])
  /\ UNCHANGED <<medications, alarms, scheduled, pending, clock, alarmService,
                 isLoading, lastSync>>

\* await Notifications.cancelAllScheduledNotificationsAsync(): issued
RsCancel(t) ==
  /\ UNCHANGED handlers
  /\ UNCHANGED <<history, now>>
  /\ tasks[t].pc = "rs_cancel"
  /\ pending' = pending \cup
       {[task |-> t, kind |-> "cancelAll", request |-> NoRequest, resume |-> "rs_clear"]}
  /\ Set(t, [tasks[t] EXCEPT !.pc = "await"])
  /\ lastSync' = NoSync
  /\ UNCHANGED <<medications, alarms, scheduled, clock, alarmService, isLoading>>

\* await medicationManager.clearAllData(): AsyncStorage.multiRemove of every key
RsClear(t) ==
  /\ UNCHANGED handlers
  /\ UNCHANGED <<history, now>>
  /\ tasks[t].pc = "rs_clear"
  /\ medications' = <<>>
  /\ alarms' = <<>>
  /\ Set(t, [tasks[t] EXCEPT !.pc = "rs_clearHistory"])
  /\ lastSync' = NoSync
  /\ UNCHANGED <<scheduled, pending, clock, alarmService, isLoading>>

\* (a reset that leaves the history where it is)
RsKeepHistory(t) ==
  /\ UNCHANGED handlers
  /\ tasks[t].pc = "rs_clearHistory"
  /\ Set(t, [tasks[t] EXCEPT !.pc = "cancel"])
  /\ UNCHANGED <<medications, alarms, scheduled, pending, clock, alarmService,
                 isLoading, lastSync, history, now>>

\* await historyService.clearHistory(): AsyncStorage.removeItem of the history;
\* then AlarmService.getInstance().rescheduleAllMedications()
RsClearHistory(t) ==
  /\ UNCHANGED handlers
  /\ tasks[t].pc = "rs_clearHistory"
  /\ history' = <<>>
  /\ Set(t, [tasks[t] EXCEPT !.pc = "cancel"])
  /\ UNCHANGED <<medications, alarms, scheduled, pending, clock, alarmService,
                 isLoading, lastSync, now>>

----------------------------------------------------------------------------
(* MedicationManager.updateAlarm(updatedAlarm): the caller hands in a      *)
(* stored alarm with fields changed                                        *)

UpdatedAlarms(alarm) ==
  { [alarm EXCEPT !.isEnabled = ~alarm.isEnabled],
    [alarm EXCEPT !.time = <<"0", "6", ":", "4", "5">>, !.daysOfWeek = <<5>>] }

UpdateAlarm(t, serial, updatedAlarm) ==
  /\ UNCHANGED handlers
  /\ UNCHANGED <<history, now>>
  /\ CanStart(t, serial)
  /\ Set(t, [IdleTask EXCEPT !.op = "updateAlarm", !.pc = "ua_load",
                             !.alarm = updatedAlarm])
  /\ UNCHANGED <<medications, alarms, scheduled, pending, clock, alarmService,
                 isLoading, lastSync>>

UaLoad(t) ==
  /\ UNCHANGED handlers
  /\ UNCHANGED <<history, now>>
  /\ tasks[t].pc = "ua_load"
  /\ Set(t, [tasks[t] EXCEPT !.pc = "ua_save", !.list = LoadAlarms])
  /\ UNCHANGED <<medications, alarms, scheduled, pending, clock, alarmService,
                 isLoading, lastSync>>

\* if (index !== -1) { alarms[index] = updatedAlarm; await this.saveAlarms(alarms); }
UaSave(t) ==
  /\ UNCHANGED handlers
  /\ UNCHANGED <<history, now>>
  /\ tasks[t].pc = "ua_save"
  /\ IF \E i \in 1..Len(tasks[t].list) : tasks[t].list[i].id = tasks[t].alarm.id
     THEN alarms' = ReplaceAlarm(tasks[t].list, tasks[t].alarm)
     ELSE UNCHANGED alarms
  /\ Set(t, [tasks[t] EXCEPT !.pc = "done", !.list = <<>>])
  /\ lastSync' = NoSync
  /\ UNCHANGED <<medications, scheduled, pending, clock, alarmService, isLoading>>

----------------------------------------------------------------------------
(* Alarm screen: a scheduled notification has fired and opened the screen  *)

\* handleSnooze: a one-off notification 5 minutes ahead, when the route
\* carries medicationId and alarmId
HandleSnooze(serial, fired) ==
  /\ UNCHANGED handlers
  /\ UNCHANGED <<history, now>>
  /\ ~isLoading
  /\ serial => \A u \in Tasks : ~Busy(u)
  /\ fired \in scheduled
  /\ scheduled' = Register(scheduled, SnoozeTrigger(fired))
  /\ scheduled' # scheduled
  /\ lastSync' = NoSync
  /\ UNCHANGED <<medications, alarms, pending, clock, alarmService, isLoading, tasks>>

\* a one-off notification is delivered and is no longer scheduled
OneOffFires(serial, r) ==
  /\ UNCHANGED handlers
  /\ UNCHANGED <<history, now>>
  /\ serial => \A u \in Tasks : ~Busy(u)
  /\ r \in scheduled
  /\ ~r.repeats
  /\ scheduled' = scheduled \ {r}
  /\ lastSync' = NoSync
  /\ UNCHANGED <<medications, alarms, pending, clock, alarmService, isLoading, tasks>>

----------------------------------------------------------------------------
(* Taking a pill: MedicationManager.decreasePillCount and                  *)
(* HistoryService.recordMedicationTaken, called by the dashboard's         *)
(* markAsTaken, the Medications screen's decreasePillCount and the alarm   *)
(* screen's handleTurnOff.  oks holds the outcomes a storage operation can *)
(* have: TRUE for success, FALSE for a rejected AsyncStorage call.         *)

\* moment(alarmTime, 'HH:mm') as minutes of today, for times written with
\* digits; NaN for an invalid moment
MomentMinutes(time) ==
  LET hm == ParseTime(time)
  IN IF InvalidTime(hm) THEN NaN ELSE Num(hm.hours.val * 60 + hm.minutes.val)

Abs(n) == IF n < 0 THEN 0 - n ELSE n

\* let wasOnTime = true; if (alarmTime) { ...; wasOnTime = diffMinutes <= 30; }
WasOnTime(alarmTime, at) ==
  IF alarmTime = <<>> THEN TRUE
  ELSE LET alarmMoment == MomentMinutes(alarmTime)
       IN ~alarmMoment.nan /\ Abs(at.minute - alarmMoment.val) <= 30

\* newEntry of recordMedicationTaken (alarmId 0 models undefined)
NewEntry(medicationId, alarm, at) ==
  [medicationId |-> medicationId,
   alarmId      |-> alarm.id,
   takenAt      |-> at,
   wasOnTime    |-> WasOnTime(alarm.time, at)]

\* findNearestAlarm: the first enabled alarm whose time is nearest to now;
\* NoAlarm models null
NearestAlarm(list, at) ==
  LET diff(a) == LET hm == ParseTime(a.time)
                 IN IF hm.hours.nan \/ hm.minutes.nan THEN NaN
                    ELSE Num(Abs(hm.hours.val * 60 + hm.minutes.val - at.minute))
      cand == {i \in 1..Len(list) : list[i].isEnabled /\ ~diff(list[i]).nan}
  IN IF cand = {} THEN NoAlarm
     ELSE list[CHOOSE i \in cand :
                 /\ \A j \in cand : diff(list[i]).val <= diff(list[j]).val
                 /\ \A j \in cand : j < i => diff(list[j]).val > diff(list[i]).val]

\* what a take handler does once decreasePillCount has returned
AfterDecrease(op, success) ==
  IF ~success THEN "done"
  ELSE IF op = "decreasePillCount" THEN "tk_loadAlarms" ELSE "rec_load"

TakeHandlers == {"markAsTaken", "decreasePillCount", "handleTurnOff"}

\* createAlarm or the delete-alarm handler stands between its read of the
\* medication and its updateMedication write
BetweenReadAndWrite(t) ==
  tasks[t].pc \in {"ca_addLoad", "ca_addSave", "ca_updLoad", "ca_updSave",
                   "da_updLoad", "da_updSave"}

\* a take handler can start: as CanStart in the serialized use; otherwise a
\* take is started (a second tap, an alarm turned off) while a first take
\* is in progress or while an alarm is being created or deleted
CanStartTake(t, serial) ==
  /\ ~isLoading
  /\ ~Busy(t)
  /\ serial => (t = "A" /\ \A u \in Tasks : ~Busy(u))
  /\ ~serial => IF t = "A" THEN ~Busy("B")
                ELSE \/ tasks["A"].op \in TakeHandlers /\ tasks["A"].pc # "done"
                     \/ BetweenReadAndWrite("A")

\* HomeScreen markAsTaken(medication): medication is the dashboard's copy
MarkAsTaken(t, serial, medication) ==
  /\ UNCHANGED handlers
  /\ CanStartTake(t, serial)
  /\ Len(history) < MaxHistory
  /\ Set(t, [IdleTask EXCEPT
               !.op = "markAsTaken",
               !.pc = IF medication.pillCount <= 0 THEN "done" ELSE "dp_load",
               !.mid = medication.id, !.med = medication,
               !.pre = medications, !.preHist = history])
  /\ UNCHANGED <<medications, alarms, scheduled, pending, clock, alarmService,
                 isLoading, lastSync, history, now>>

\* Medications screen decreasePillCount(medicationId)
ScreenDecreasePillCount(t, serial, medicationId) ==
  /\ UNCHANGED handlers
  /\ CanStartTake(t, serial)
  /\ Len(history) < MaxHistory
  /\ Set(t, [IdleTask EXCEPT !.op = "decreasePillCount", !.pc = "tk_get",
                             !.mid = medicationId,
                             !.pre = medications, !.preHist = history])
  /\ UNCHANGED <<medications, alarms, scheduled, pending, clock, alarmService,
                 isLoading, lastSync, history, now>>

\* alarm screen handleTurnOff: the route carries the data of the
\* notification that fired (medicationId, alarmId, alarmTime)
HandleTurnOff(t, serial, fired) ==
  /\ UNCHANGED handlers
  /\ CanStartTake(t, serial)
  /\ Len(history) < MaxHistory
  /\ fired \in scheduled
  /\ Set(t, [IdleTask EXCEPT
               !.op = "handleTurnOff", !.pc = "tk_get",
               !.mid = fired.medicationId,
               !.alarm = [NoAlarm EXCEPT !.id = fired.alarmId, !.time = fired.alarmTime],
               !.pre = medications, !.preHist = history])
  /\ UNCHANGED <<medications, alarms, scheduled, pending, clock, alarmService,
                 isLoading, lastSync, history, now>>

\* const medication = await medicationManager.getMedication(medicationId);
\* the screen returns when it is null, the alarm screen goes on only
\* if (medication && medication.pillCount > 0)
TkGet(t, oks) ==
  /\ UNCHANGED handlers
  /\ tasks[t].pc = "tk_get"
  /\ \E ok \in oks :
       LET medication == FindMedication(IF ok THEN LoadMedications ELSE <<>>, tasks[t].mid)
           goesOn == /\ medication # NoMed
                     /\ tasks[t].op = "handleTurnOff" => medication.pillCount > 0
       IN Set(t, [tasks[t] EXCEPT !.pc = IF goesOn THEN "dp_load" ELSE "done",
                                  !.med = medication,
                                  !.fault = @ \/ ~ok])
  /\ UNCHANGED <<medications, alarms, scheduled, pending, clock, alarmService,
                 isLoading, lastSync, history, now>>

\* (a pill taken from a count of 0 too)
CanDecreaseAtZero(medication) == medication # NoMed /\ medication.pillCount >= 0

\* if (medicationIndex !== -1) { if (medication.pillCount > 0) {
CanDecrease(medication) == medication # NoMed /\ medication.pillCount > 0

\* decreasePillCount: const medications = await this.loadMedications();
\* findIndex; false when the medication is not found or its pillCount is
\* not above 0
DpLoad(t, oks) ==
  /\ UNCHANGED handlers
  /\ tasks[t].pc = "dp_load"
  /\ \E ok \in oks :
       LET meds == IF ok THEN LoadMedications ELSE <<>>
           medication == FindMedication(meds, tasks[t].mid)
           updatedMedication == [medication EXCEPT !.pillCount = @ - 1]
       IN IF CanDecrease(medication)
          THEN Set(t, [tasks[t] EXCEPT
                         !.pc = "dp_save", !.pre = medications,
                         !.meds = ReplaceMedication(meds, updatedMedication),
                         !.fault = @ \/ ~ok, !.dpFault = ~ok])
          ELSE Set(t, [tasks[t] EXCEPT
                         !.pc = AfterDecrease(tasks[t].op, FALSE),
                         !.pre = medications, !.success = "false",
                         !.fault = @ \/ ~ok, !.dpFault = ~ok])
  /\ UNCHANGED <<medications, alarms, scheduled, pending, clock, alarmService,
                 isLoading, lastSync, history, now>>

\* decreasePillCount: await this.saveMedications(medications); return true;
\* the catch returns false
DpSave(t, oks) ==
  /\ UNCHANGED handlers
  /\ tasks[t].pc = "dp_save"
  /\ \E ok \in oks :
       /\ medications' = IF ok THEN tasks[t].meds ELSE medications
       /\ Set(t, [tasks[t] EXCEPT
                    !.pc = AfterDecrease(tasks[t].op, ok),
                    !.success = IF ok THEN "true" ELSE "false",
                    !.meds = <<>>,
                    !.fault = @ \/ ~ok, !.dpFault = @ \/ ~ok])
  /\ lastSync' = NoSync
  /\ UNCHANGED <<alarms, scheduled, pending, clock, alarmService, isLoading,
                 history, now>>

\* the screen: const allAlarms = await medicationManager.loadAlarms();
\* medAlarms = allAlarms.filter(a => a.medicationId === medicationId);
\* nearestAlarm = findNearestAlarm(medAlarms)
TkLoadAlarms(t, oks) ==
  /\ UNCHANGED handlers
  /\ tasks[t].pc = "tk_loadAlarms"
  /\ \E ok \in oks :
       LET allAlarms == IF ok THEN LoadAlarms ELSE <<>>
           medAlarms == SelectSeq(allAlarms, LAMBDA a : a.medicationId = tasks[t].mid)
       IN Set(t, [tasks[t] EXCEPT !.pc = "rec_load",
                                  !.alarm = NearestAlarm(medAlarms, now),
                                  !.fault = @ \/ ~ok])
  /\ UNCHANGED <<medications, alarms, scheduled, pending, clock, alarmService,
                 isLoading, lastSync, history, now>>

\* recordMedicationTaken: const history = await this.loadHistory() (which
\* returns [] when the read fails); const now = new Date(); newEntry;
\* history.push(newEntry)
RecLoad(t, oks) ==
  /\ UNCHANGED handlers
  /\ tasks[t].pc = "rec_load"
  /\ \E ok \in oks :
       LET loaded   == IF ok THEN history ELSE <<>>
           newEntry == NewEntry(tasks[t].mid, tasks[t].alarm, now)
       IN Set(t, [tasks[t] EXCEPT !.pc = "rec_save",
                                  !.hist = Append(loaded, newEntry),
                                  !.entry = newEntry,
                                  !.preHist = history,
                                  !.fault = @ \/ ~ok])
  /\ UNCHANGED <<medications, alarms, scheduled, pending, clock, alarmService,
                 isLoading, lastSync, history, now>>

\* recordMedicationTaken: await this.saveHistory(history); a failure is
\* thrown on to the handler, whose catch ends it
RecSave(t, oks) ==
  /\ UNCHANGED handlers
  /\ tasks[t].pc = "rec_save"
  /\ \E ok \in oks :
       /\ history' = IF ok THEN tasks[t].hist ELSE history
       /\ Set(t, [tasks[t] EXCEPT !.pc = "done", !.hist = <<>>,
                                  !.recorded = ok, !.failed = ~ok,
                                  !.fault = @ \/ ~ok])
  /\ UNCHANGED <<medications, alarms, scheduled, pending, clock, alarmService,
                 isLoading, lastSync, now>>

----------------------------------------------------------------------------
(* Medications screen, refillPillCount -> getMedication, updateMedication *)

\* const pillsToAdd = parseInt(refillAmount, 10);
\* if (isNaN(pillsToAdd) || pillsToAdd <= 0) return;
RefillPillCount(t, serial, medicationId, refillAmount) ==
  /\ UNCHANGED handlers
  /\ CanStart(t, serial)
  /\ LET pillsToAdd == ParseInt(refillAmount)
     IN /\ ~pillsToAdd.nan =>
             FindMedication(medications, medicationId).pillCount + pillsToAdd.val <= MaxPills
        /\ Set(t, [IdleTask EXCEPT
                     !.op = "refillPillCount",
                     !.pc = IF pillsToAdd.nan \/ pillsToAdd.val <= 0 THEN "done" ELSE "rf_get",
                     !.mid = medicationId,
                     !.pos = IF pillsToAdd.nan THEN 0 ELSE pillsToAdd.val])
  /\ UNCHANGED <<medications, alarms, scheduled, pending, clock, alarmService,
                 isLoading, lastSync, history, now>>

\* const medication = await getMedication(...); return when null;
\* updatedMedication = { ...medication, pillCount: medication.pillCount + pillsToAdd }
RfGet(t, oks) ==
  /\ UNCHANGED handlers
  /\ tasks[t].pc = "rf_get"
  /\ \E ok \in oks :
       LET medication == FindMedication(IF ok THEN LoadMedications ELSE <<>>, tasks[t].mid)
       IN IF medication = NoMed
          THEN Set(t, [tasks[t] EXCEPT !.pc = "done", !.fault = @ \/ ~ok])
          ELSE Set(t, [tasks[t] EXCEPT
                         !.pc = "rf_load",
                         !.med = [medication EXCEPT !.pillCount = @ + tasks[t].pos]])
  /\ UNCHANGED <<medications, alarms, scheduled, pending, clock, alarmService,
                 isLoading, lastSync, history, now>>

\* updateMedication: const medications = await this.loadMedications();
RfLoad(t, oks) ==
  /\ UNCHANGED handlers
  /\ tasks[t].pc = "rf_load"
  /\ \E ok \in oks :
       Set(t, [tasks[t] EXCEPT !.pc = "rf_save",
                               !.meds = IF ok THEN LoadMedications ELSE <<>>,
                               !.fault = @ \/ ~ok])
  /\ UNCHANGED <<medications, alarms, scheduled, pending, clock, alarmService,
                 isLoading, lastSync, history, now>>

\* updateMedication: medications[index] = updatedMedication and save when
\* the medication is found; a failed save is thrown on to the handler
RfSave(t, oks) ==
  /\ UNCHANGED handlers
  /\ tasks[t].pc = "rf_save"
  /\ \E ok \in oks :
       /\ IF ok /\ \E i \in 1..Len(tasks[t].meds) : tasks[t].meds[i].id = tasks[t].med.id
          THEN medications' = ReplaceMedication(tasks[t].meds, tasks[t].med)
          ELSE UNCHANGED medications
       /\ Set(t, [tasks[t] EXCEPT !.pc = "done", !.meds = <<>>, !.med = NoMed,
                                  !.failed = ~ok, !.fault = @ \/ ~ok])
  /\ lastSync' = NoSync
  /\ UNCHANGED <<alarms, scheduled, pending, clock, alarmService, isLoading,
                 history, now>>

----------------------------------------------------------------------------
(* HistoryService.calculateAdherenceStats, in the two revisions the file   *)
(* holds.  A calendar date ('YYYY-MM-DD') is a day number; at is the value  *)
(* of moment() when the statistics are computed.                           *)

Max(a, b) == IF a >= b THEN a ELSE b

\* Math.round((a / b) * 100) for a >= 0, b > 0
RoundPercent(a, b) == (200 * a + b) \div (2 * b)

\* getMedicationHistory: history.filter(h => h.medicationId === medicationId)
MedicationHistory(hist, medicationId) ==
  SelectSeq(hist, LAMBDA h : h.medicationId = medicationId)

\* the dates of the entries: moment(entry.takenAt).format('YYYY-MM-DD')
TakenDays(entries) == {entries[i].takenAt.day : i \in 1..Len(entries)}

\* (every day taken up to the date counted, consecutive or not)
DaysTakenUpTo(days, date) == Cardinality({d \in days : d <= date})

\* while (true) { if (sortedTaken.includes(dateStr)) { currentStreak++;
\* checkDate.subtract(1, 'day'); } else break; }
RECURSIVE StreakBackFrom(_, _)
StreakBackFrom(days, date) ==
  IF date \in days THEN 1 + StreakBackFrom(days, date - 1) ELSE 0

\* Array.from(takenDays).sort(): the dates in ascending order
RECURSIVE SortedDates(_)
SortedDates(days) ==
  IF days = {} THEN <<>>
  ELSE LET first == CHOOSE d \in days : \A e \in days : d <= e
       IN <<first>> \o SortedDates(days \ {first})

\* for (let i = 1; i < sortedDates.length; i++) { if (diffDays === 1)
\* tempStreak++; else { longestStreak = max(longestStreak, tempStreak);
\* tempStreak = 1; } }  longestStreak = max(longestStreak, tempStreak)
RECURSIVE DatesLoop(_, _, _, _)
DatesLoop(sortedDates, i, tempStreak, longestStreak) ==
  IF i > Len(sortedDates) THEN IF longestStreak >= tempStreak THEN longestStreak ELSE tempStreak
  ELSE IF sortedDates[i] - sortedDates[i - 1] = 1
       THEN DatesLoop(sortedDates, i + 1, tempStreak + 1, longestStreak)
       ELSE DatesLoop(sortedDates, i + 1, 1,
                      IF longestStreak >= tempStreak THEN longestStreak ELSE tempStreak)

\* the longest streak of the first revision, over the distinct dates taken
LongestRun(days) ==
  IF days = {} THEN 0 ELSE DatesLoop(SortedDates(days), 2, 1, 0)

\* the key under which an entry counts in alarmsWithPillsTaken: its alarmId
\* when it has one, else its date and 30-minute window
TakenKey(entry) ==
  IF entry.alarmId # 0 THEN <<"alarm", entry.alarmId, 0, 0>>
  ELSE <<"window", entry.takenAt.day, entry.takenAt.minute \div 60,
         ((entry.takenAt.minute % 60) \div 30) * 30>>

NoTime == [day |-> -1, minute |-> -1]

\* what the early return and the catch return
ZeroStats ==
  [totalAlarms |-> 0, totalTaken |-> 0, adherenceRate |-> 0, currentStreak |-> 0,
   longestStreak |-> 0, missedDays |-> 0, lastTaken |-> NoTime]

\* calculateAdherenceStats(medication, alarms), first revision: unique
\* alarms with pills taken against the number of enabled alarms
CalculateAdherenceStats(medication, medAlarms, hist, at) ==
  LET historyEntries == MedicationHistory(hist, medication.id)
      totalAlarms    == Len(SelectSeq(medAlarms, LAMBDA a : a.isEnabled))
      totalTaken     == Cardinality({TakenKey(historyEntries[i]) :
                                       i \in 1..Len(historyEntries)})
      takenDays      == TakenDays(historyEntries)
  IN [totalAlarms   |-> totalAlarms,
      totalTaken    |-> totalTaken,
      adherenceRate |-> IF totalAlarms > 0 THEN RoundPercent(totalTaken, totalAlarms) ELSE 0,
      currentStreak |-> StreakBackFrom(takenDays, at.day),
      longestStreak |-> LongestRun(takenDays),
      missedDays    |-> Max(0, totalAlarms - totalTaken),
      lastTaken     |-> IF historyEntries = <<>> THEN NoTime
                        ELSE historyEntries[Len(historyEntries)].takenAt]

\* the dates from 30 days back up to yesterday whose weekday is one of the
\* days of an enabled alarm (today is not before endDate)
ExpectedDays(medAlarms, at) ==
  {date \in (at.day - 30)..(at.day - 1) :
     \E i \in 1..Len(medAlarms) :
       /\ medAlarms[i].isEnabled
       /\ \E j \in 1..Len(medAlarms[i].daysOfWeek) :
            JsDayOfOurs(medAlarms[i].daysOfWeek[j]) = JsDay(date)}

\* [...historyEntries].sort((a, b) => moment(a.takenAt).diff(moment(b.takenAt)))
RECURSIVE SortByTakenAt(_)
SortByTakenAt(entries) ==
  IF entries = <<>> THEN <<>>
  ELSE LET stamp(e) == e.takenAt.day * 1440 + e.takenAt.minute
           i == CHOOSE k \in 1..Len(entries) :
                  /\ \A j \in 1..Len(entries) : stamp(entries[k]) <= stamp(entries[j])
                  /\ \A j \in 1..(k - 1) : stamp(entries[j]) > stamp(entries[k])
       IN <<entries[i]>> \o
          SortByTakenAt(SubSeq(entries, 1, i - 1) \o SubSeq(entries, i + 1, Len(entries)))

\* the "simplified" longest streak of the windowed revision: over the
\* sorted entries, tempStreak grows when an entry is one whole day after
\* the entry before it, and starts again at 1 otherwise
RECURSIVE StreakLoop(_, _, _, _)
StreakLoop(sorted, i, tempStreak, longestStreak) ==
  IF i > Len(sorted) THEN Max(longestStreak, tempStreak)
  ELSE LET stamp(e) == e.takenAt.day * 1440 + e.takenAt.minute
       IN IF i = 1 \/ (stamp(sorted[i]) - stamp(sorted[i - 1])) \div 1440 = 1
          THEN StreakLoop(sorted, i + 1, tempStreak + 1, longestStreak)
          ELSE StreakLoop(sorted, i + 1, 1, Max(longestStreak, tempStreak))

\* calculateAdherenceStats(medication, alarms), windowed revision: days
\* taken against the expected days of the last 30 days
CalculateAdherenceStatsWindowed(medication, medAlarms, hist, at) ==
  LET historyEntries == MedicationHistory(hist, medication.id)
      takenDays      == TakenDays(historyEntries)
      totalExpected  == Cardinality(ExpectedDays(medAlarms, at))
      totalTaken     == Cardinality(takenDays)
  IN IF historyEntries = <<>> THEN ZeroStats
     ELSE [totalAlarms   |-> totalExpected,
           totalTaken    |-> totalTaken,
           adherenceRate |-> IF totalExpected > 0
                             THEN RoundPercent(totalTaken, totalExpected) ELSE 0,
           currentStreak |-> StreakBackFrom(takenDays, at.day),
           longestStreak |-> StreakLoop(SortByTakenAt(historyEntries), 1, 0, 0),
           missedDays    |-> Max(0, totalExpected - totalTaken),
           lastTaken     |-> historyEntries[Len(historyEntries)].takenAt]

\* getAllAdherenceStats: medAlarms = allAlarms.filter(a => a.medicationId === med.id)
StatsOf(medication, allAlarms, hist, at) ==
  LET medAlarms == SelectSeq(allAlarms, LAMBDA a : a.medicationId = medication.id)
  IN [first    |-> CalculateAdherenceStats(medication, medAlarms, hist, at),
      windowed |-> CalculateAdherenceStatsWindowed(medication, medAlarms, hist, at)]

----------------------------------------------------------------------------
(* Statistics screen, loadStatistics -> getAllAdherenceStats *)

LoadStatistics(t, serial) ==
  /\ UNCHANGED handlers
  /\ CanStart(t, serial)
  /\ Set(t, [IdleTask EXCEPT !.op = "loadStatistics", !.pc = "ls_loadMedications"])
  /\ UNCHANGED <<medications, alarms, scheduled, pending, clock, alarmService,
                 isLoading, lastSync, history, now>>

\* const medications = await medicationManager.loadMedications();
LsLoadMedications(t) ==
  /\ UNCHANGED handlers
  /\ tasks[t].pc = "ls_loadMedications"
  /\ Set(t, [tasks[t] EXCEPT !.pc = "ls_loadAlarms", !.meds = LoadMedications])
  /\ UNCHANGED <<medications, alarms, scheduled, pending, clock, alarmService,
                 isLoading, lastSync, history, now>>

\* const allAlarms = await medicationManager.loadAlarms();
LsLoadAlarms(t) ==
  /\ UNCHANGED handlers
  /\ tasks[t].pc = "ls_loadAlarms"
  /\ Set(t, [tasks[t] EXCEPT !.pc = "ls_stats", !.list = LoadAlarms])
  /\ UNCHANGED <<medications, alarms, scheduled, pending, clock, alarmService,
                 isLoading, lastSync, history, now>>

\* const stats = await historyService.getAllAdherenceStats(medications, allAlarms);
\* setAdherenceStats(stats)
LsStats(t) ==
  /\ UNCHANGED handlers
  /\ tasks[t].pc = "ls_stats"
  /\ Set(t, [tasks[t] EXCEPT
               !.pc = "done",
               !.stats = [i \in 1..Len(tasks[t].meds) |->
                            StatsOf(tasks[t].meds[i], tasks[t].list, history, now)]])
  /\ UNCHANGED <<medications, alarms, scheduled, pending, clock, alarmService,
                 isLoading, lastSync, history, now>>

----------------------------------------------------------------------------
(* Time passes: later the same day, or the next day *)

Tick(serial, lastDay, times) ==
  /\ UNCHANGED handlers
  /\ serial => (pending = {} /\ \A u \in Tasks : ~Busy(u))
  /\ \E n \in [day : {now.day, now.day + 1}, minute : times] :
       /\ n.day <= lastDay
       /\ n.day = now.day => n.minute > now.minute
       /\ now' = n
  /\ UNCHANGED <<medications, alarms, scheduled, pending, clock, alarmService,
                 isLoading, tasks, lastSync, history>>

----------------------------------------------------------------------------
(* The system *)

Init ==
  /\ handlers = NoHandlers
  /\ history = <<>>
  /\ now = FirstNow
  /\ medications = <<>>
  /\ alarms = <<>>
  /\ scheduled = {}
  /\ pending = {}
  /\ clock = 1
  /\ alarmService = FALSE
  /\ isLoading = TRUE
  /\ tasks = [t \in Tasks |-> IdleTask]
  /\ lastSync = NoSync

\* a user action starts a handler of a screen
Start(t, serial, inputs, pills) ==
  \/ \E n \in pills : SaveMedication(t, serial, n)
  \/ \E m \in Range(medications), d \in inputs : CreateAlarm(t, serial, m.id, d)
  \/ \E m \in Range(medications) : \E a \in Range(m.alarms) :
       DeleteAlarm(t, serial, m.id, a)
  \/ \E m \in Range(medications) : DeleteMedication(t, serial, m.id)
  \/ ResetData(t, serial)

\* a handler in progress passes an await
Step(t) ==
  \/ ResyncCancel(t) \/ ResyncLoadMedications(t) \/ ResyncLoadAlarms(t)
  \/ ResyncSchedule(t) \/ ResyncReturn(t) \/ Finish(t)
  \/ SmLoad(t) \/ SmSave(t)
  \/ CaGetMedication(t) \/ CaAddLoad(t) \/ CaAddSave(t) \/ CaUpdLoad(t) \/ CaUpdSave(t)
  \/ DaDelLoad(t) \/ DaDelSave(t) \/ DaGetMedication(t) \/ DaUpdLoad(t) \/ DaUpdSave(t)
  \/ DmLoadAlarms(t) \/ DmDelLoad(t) \/ DmDelSave(t) \/ DmMedLoad(t) \/ DmMedSave(t)
  \/ RsCancel(t) \/ RsClear(t) \/ RsClearHistory(t)

\* expo-notifications resolves a call
Resolve ==
  \E p \in pending : CancelResolves(p) \/ ScheduleResolves(p)

Screens(serial, inputs, pills) ==
  \/ LaunchInitializeFails
  \/ Launch
  \/ \E t \in Tasks : Start(t, serial, inputs, pills)
  \/ \E t \in Tasks : Step(t)
  \/ Resolve

\* a pill is taken or pills are refilled
Takes(serial, oks, refills) ==
  \/ \E t \in Tasks : \E m \in Range(medications) :
       \/ MarkAsTaken(t, serial, m)
       \/ ScreenDecreasePillCount(t, serial, m.id)
       \/ \E n \in refills : RefillPillCount(t, serial, m.id, n)
  \/ \E t \in Tasks : \E fired \in scheduled : HandleTurnOff(t, serial, fired)
  \/ \E t \in Tasks :
       \/ TkGet(t, oks) \/ DpLoad(t, oks) \/ DpSave(t, oks) \/ TkLoadAlarms(t, oks)
       \/ RecLoad(t, oks) \/ RecSave(t, oks)
       \/ RfGet(t, oks) \/ RfLoad(t, oks) \/ RfSave(t, oks)

\* updateAlarm called on a stored alarm, and the alarm screen
Others(serial) ==
  \/ \E t \in Tasks : \E a \in Range(alarms) : \E u \in UpdatedAlarms(a) :
       UpdateAlarm(t, serial, u)
  \/ \E t \in Tasks : UaLoad(t) \/ UaSave(t)
  \/ \E fired \in scheduled : HandleSnooze(serial, fired)
  \/ \E r \in scheduled : OneOffFires(serial, r)

\* the handlers are used one after the other, and every call is accepted
Next == Screens(TRUE, AlarmInputs, PresetPills) \/ Others(TRUE)

Spec == Init /\ [][Next]_vars

\* as Spec, and expo-notifications may reject a scheduleNotificationAsync call
NextReject == Next \/ \E p \in pending : ScheduleRejects(p)

SpecReject == Init /\ [][NextReject]_vars

\* a second handler of a screen may be started while the first is inside
\* rescheduleAllMedications
RaceInputs == {d \in AlarmInputs : d.daysOfWeek = <<3, 7>>}

NextRace == Screens(FALSE, RaceInputs, PresetPills)

SpecRace == Init /\ [][NextRace]_vars

\* the handlers of the screens alone, one after the other
NextScreens == Screens(TRUE, AlarmInputs, PresetPills)

SpecScreens == Init /\ [][NextScreens]_vars

\* the handlers of the screens one after the other, with alarms whose
\* weekday list names a day twice, and with a Date.now() that can return the
\* same millisecond to two createAlarm calls
KeyInputs ==
  { [time |-> <<"2", "1", ":", "0", "5">>, daysOfWeek |-> <<3, 3>>, isEnabled |-> "true"],
    [time |-> <<"0", "6", ":", "4", "5">>, daysOfWeek |-> <<3, 7>>, isEnabled |-> "true"] }

NextKeys ==
  \/ Screens(TRUE, KeyInputs, PresetPills)
  \/ \E t \in Tasks : CaGetMedicationSameMs(t)

SpecKeys == Init /\ [][NextKeys]_vars

\* the handlers of the screens one after the other over more than a week,
\* with an alarm of every weekday
WeekInputs ==
  { [time |-> <<"2", "1", ":", "0", "5">>, daysOfWeek |-> <<1, 2, 3, 4, 5, 6, 7>>,
     isEnabled |-> "true"],
    [time |-> <<"0", "6", ":", "4", "5">>, daysOfWeek |-> <<7>>, isEnabled |-> "true"] }

NextWeek ==
  \/ Screens(TRUE, WeekInputs, PresetPills)
  \/ Tick(TRUE, MaxWeekDay, {485})

SpecWeek == Init /\ [][NextWeek]_vars

\* medications are added, alarms added and deleted, pills taken and
\* refilled and the data reset, one handler after the other
TakeInputs ==
  { [time |-> <<"0", "8", ":", "2", "0">>, daysOfWeek |-> <<3>>, isEnabled |-> "true"] }

NextTake ==
  \/ Screens(TRUE, TakeInputs, PillInputs)
  \/ Takes(TRUE, {TRUE}, RefillInputs)

SpecTake == Init /\ [][NextTake]_vars

\* as SpecTake, and an AsyncStorage call of a take or a refill may be rejected
NextTakeFaults ==
  \/ Screens(TRUE, TakeInputs, PillInputs)
  \/ Takes(TRUE, BOOLEAN, RefillInputs)

SpecTakeFaults == Init /\ [][NextTakeFaults]_vars

\* the handlers of the screens one after the other, and the dashboard's Take
\* may be pressed while a first markAsTaken is in progress or while an alarm
\* is being created or deleted; every storage call is accepted
RacePills == {<<"2">>}

NextTakeRace ==
  \/ Screens(TRUE, TakeInputs, RacePills)
  \/ \E t \in Tasks : \E m \in Range(medications) : MarkAsTaken(t, FALSE, m)
  \/ \E t \in Tasks :
       \/ DpLoad(t, {TRUE}) \/ DpSave(t, {TRUE})
       \/ RecLoad(t, {TRUE}) \/ RecSave(t, {TRUE})

SpecTakeRace == Init /\ [][NextTakeRace]_vars

\* the handlers of the screens and the three take actions one after the
\* other, while the time of day and the calendar day advance
NextStats ==
  \/ Screens(TRUE, TakeInputs, RacePills)
  \/ \E t \in Tasks : \E m \in Range(medications) :
       \/ MarkAsTaken(t, TRUE, m)
       \/ ScreenDecreasePillCount(t, TRUE, m.id)
  \/ \E t \in Tasks : \E fired \in scheduled : HandleTurnOff(t, TRUE, fired)
  \/ \E t \in Tasks :
       \/ TkGet(t, {TRUE}) \/ DpLoad(t, {TRUE}) \/ DpSave(t, {TRUE})
       \/ TkLoadAlarms(t, {TRUE}) \/ RecLoad(t, {TRUE}) \/ RecSave(t, {TRUE})
  \/ Tick(TRUE, MaxDay, TimesOfDay)

SpecStats == Init /\ [][NextStats]_vars

\* the statistics computed over the stores a user can have built up: one
\* medication, no alarm or one alarm (Monday and Wednesday, 08:20, enabled or
\* disabled), and a history of pills taken from the dashboard or with the
\* alarm, in the order they were taken
CalcMedication(alarmList) ==
  [id |-> 1, alarms |-> [i \in 1..Len(alarmList) |-> alarmList[i].id], pillCount |-> 2]

CalcAlarms ==
  {NewAlarm(2, 1, [time |-> <<"0", "8", ":", "2", "0">>, daysOfWeek |-> <<1, 3>>,
                   isEnabled |-> e]) : e \in {"true", "false"}}

CalcMoments == [day : 1..MaxDay, minute : TimesOfDay \ {500}]

Stamp(at) == at.day * 1440 + at.minute

CalcEntries ==
  {NewEntry(1, a, at) : a \in CalcAlarms \cup {NoAlarm}, at \in CalcMoments}

CalcHistories ==
  {h \in UNION {[1..n -> CalcEntries] : n \in 0..MaxHistory} :
     \A i \in 1..(Len(h) - 1) : Stamp(h[i].takenAt) < Stamp(h[i + 1].takenAt)}

InitCalc ==
  /\ \E alarmList \in {<<>>} \cup {<<a>> : a \in CalcAlarms} :
       /\ alarms = alarmList
       /\ medications = <<CalcMedication(alarmList)>>
       /\ LET plan == ResyncPlan(medications, alarmList)
          IN scheduled = {plan[i].request : i \in 1..Len(plan)}
  /\ handlers = NoHandlers
  /\ history \in CalcHistories
  /\ now \in CalcMoments
  /\ \A i \in 1..Len(history) : Stamp(history[i].takenAt) <= Stamp(now)
  /\ pending = {}
  /\ clock = 3
  /\ alarmService = TRUE
  /\ isLoading = FALSE
  /\ tasks = [t \in Tasks |-> IdleTask]
  /\ lastSync = NoSync

NextCalc ==
  \/ \E t \in Tasks : LoadStatistics(t, TRUE)
  \/ \E t \in Tasks : LsLoadMedications(t) \/ LsLoadAlarms(t) \/ LsStats(t) \/ Finish(t)
  \/ Tick(TRUE, MaxDay, TimesOfDay \ {500})

SpecCalc == InitCalc /\ [][NextCalc]_vars

\* an alarm at 23:50 fires and is turned off on the alarm screen, at 23:55
\* or after midnight at 00:05
LateInputs ==
  { [time |-> <<"2", "3", ":", "5", "0">>, daysOfWeek |-> <<3>>, isEnabled |-> "true"] }

LateTimes == {5, 23 * 60 + 55}

NextLate ==
  \/ Screens(TRUE, LateInputs, RacePills)
  \/ \E t \in Tasks : \E fired \in scheduled : HandleTurnOff(t, TRUE, fired)
  \/ \E t \in Tasks :
       \/ TkGet(t, {TRUE}) \/ DpLoad(t, {TRUE}) \/ DpSave(t, {TRUE})
       \/ RecLoad(t, {TRUE}) \/ RecSave(t, {TRUE})
  \/ Tick(TRUE, MaxDay, LateTimes)

SpecLate == Init /\ [][NextLate]_vars

\* the handlers of the screens one after the other, and AsyncStorage may
\* reject a read or a write of addMedication and addAlarm
NextStoreFaults ==
  \/ Screens(TRUE, TakeInputs, RacePills)
  \/ \E t \in Tasks :
       \/ SmLoadFails(t) \/ SmSaveFails(t)
       \/ CaAddLoadFails(t) \/ CaAddSaveFails(t)

SpecStoreFaults == Init /\ [][NextStoreFaults]_vars

\* the handlers of the screens and AlarmService.cancelAlarm, one after the
\* other
NextCancel ==
  \/ Screens(TRUE, TakeInputs, RacePills)
  \/ \E t \in Tasks : \E a \in Range(alarms) : CancelAlarm(t, TRUE, a.id)
  \/ \E t \in Tasks : CnDelLoad(t) \/ CnDelSave(t)

SpecCancel == Init /\ [][NextCancel]_vars

\* the notification listeners: one medication with one enabled alarm is
\* stored, and the app has not been launched yet
InitHandlers ==
  /\ \E a \in {b \in CalcAlarms : b.isEnabled} :
       /\ alarms = <<a>>
       /\ medications = <<CalcMedication(<<a>>)>>
       /\ LET plan == ResyncPlan(medications, <<a>>)
          IN scheduled = {plan[i].request : i \in 1..Len(plan)}
  /\ handlers = NoHandlers
  /\ history = <<>>
  /\ now = FirstNow
  /\ pending = {}
  /\ clock = 3
  /\ alarmService = FALSE
  /\ isLoading = TRUE
  /\ tasks = [t \in Tasks |-> IdleTask]
  /\ lastSync = NoSync

\* launches, in a new process or in the same one, the set-up of the
\* listeners from both places, delivered and tapped notifications
NextHandlers ==
  \/ LaunchInitializeFails
  \/ Launch
  \/ \E t \in Tasks :
       \/ ResyncCancel(t) \/ ResyncLoadMedications(t) \/ ResyncLoadAlarms(t)
       \/ ResyncSchedule(t) \/ ResyncReturn(t) \/ Finish(t)
  \/ Resolve
  \/ NavigationReady
  \/ SetupNavigation
  \/ OnReady
  \/ \E hasMedicationId \in BOOLEAN : NotificationReceived(hasMedicationId)
  \/ ReceivedTimerFires
  \/ \E hasMedicationId \in BOOLEAN : NotificationResponse(hasMedicationId)
  \/ \E i \in 1..MaxSetupCalls : NavigateToAlarm(i)

SpecHandlers == InitHandlers /\ [][NextHandlers]_vars

----------------------------------------------------------------------------
(* What the claims speak of *)

\* rescheduleAllMedications of handler t has returned
Returned(t) == tasks[t].pc = "done" /\ tasks[t].synced

AllIdle == pending = {} /\ \A t \in Tasks : ~Busy(t)

\* the time string reads as an hour in 0..23 and a minute in 0..59
ClockTimeOk(a) ==
  LET hm == ParseTime(a.time)
  IN /\ ~hm.hours.nan /\ ~hm.minutes.nan
     /\ hm.hours.val \in 0..23 /\ hm.minutes.val \in 0..59

\* the weekly trigger of alarm a on weekday d (Monday=1..Sunday=7)
WeeklyTrigger(a, d) ==
  [identifier   |-> <<"alarm", a.id, d>>,
   weekday      |-> (d % 7) + 1,
   hour         |-> ParseTime(a.time).hours.val,
   minute       |-> ParseTime(a.time).minutes.val,
   repeats      |-> TRUE,
   medicationId |-> a.medicationId,
   alarmId      |-> a.id,
   alarmTime    |-> a.time]

\* a stored alarm that is enabled, has a valid time and belongs to a stored medication
Schedulable(a) ==
  /\ a.isEnabled
  /\ ClockTimeOk(a)
  /\ \E m \in Range(medications) : m.id = a.medicationId

ValidDays(a) == Range(a.daysOfWeek) \cap (1..7)

TriggersOf(a) ==
  IF Schedulable(a) THEN {WeeklyTrigger(a, d) : d \in ValidDays(a)} ELSE {}

ScheduledFor(a) == {r \in scheduled : r.alarmId = a.id}

\* the weekly triggers of the stored alarms
Mirror == UNION {TriggersOf(a) : a \in Range(alarms)}

\* every stored alarm other than a has its weekly triggers scheduled
OthersScheduled(a) ==
  \A b \in Range(alarms) : b.id # a.id => TriggersOf(b) \subseteq scheduled

----------------------------------------------------------------------------
(* C1 *)

----------------------------------------------------------------------------
(* C2 *)

\* C2: a reschedule that follows a completed reschedule, with no change to
\* the stored medications and alarms nor to the scheduled notifications in
\* between, leaves scheduled what the first one left.
C2_Idempotent ==
  \A t \in Tasks : (Returned(t) /\ lastSync.valid) => scheduled = lastSync.reg

\* the second run in a row has returned and triggers are scheduled
C2_Witness ==
  \E t \in Tasks : Returned(t) /\ lastSync.valid /\ Cardinality(scheduled) >= 2

----------------------------------------------------------------------------
(* C3 *)

\* C3: after rescheduleAllMedications has returned, no scheduled notification
\* carries the id of a stored alarm with isEnabled = false, and the triggers
\* of every other alarm are scheduled.
C3_DisabledRemoved ==
  \A t \in Tasks : Returned(t) =>
    \A a \in Range(alarms) :
      ~a.isEnabled => (ScheduledFor(a) = {} /\ OthersScheduled(a))

\* the run has returned; a stored alarm is disabled whose triggers were
\* scheduled when the run began; another alarm has its triggers scheduled
C3_Witness ==
  \E t \in Tasks :
    /\ Returned(t)
    /\ \E a \in Range(alarms) :
         /\ ~a.isEnabled
         /\ a.id \in tasks[t].before
         /\ \E b \in Range(alarms) : b.id # a.id /\ TriggersOf(b) # {}

----------------------------------------------------------------------------
(* C4 *)

\* C4: after rescheduleAllMedications has returned, an enabled alarm with an
\* empty weekday set has no scheduled notification, the handler has not
\* thrown, and the triggers of every other alarm are scheduled.
C4_EmptyWeekdays ==
  \A t \in Tasks : Returned(t) =>
    \A a \in Range(alarms) :
      (a.isEnabled /\ a.daysOfWeek = <<>>) =>
        (ScheduledFor(a) = {} /\ ~tasks[t].failed /\ OthersScheduled(a))

\* the run has returned with an enabled alarm of no weekdays stored and the
\* triggers of another alarm scheduled
C4_Witness ==
  \E t \in Tasks :
    /\ Returned(t)
    /\ \E a \in Range(alarms) :
         /\ a.isEnabled /\ a.daysOfWeek = <<>>
         /\ \E b \in Range(alarms) : b.id # a.id /\ TriggersOf(b) # {}

----------------------------------------------------------------------------
(* C5 *)

\* C5: after rescheduleAllMedications has returned, an enabled alarm whose
\* time does not read as an hour in 0..23 and a minute in 0..59 has no
\* scheduled notification, the handler has not thrown, and the triggers of
\* every other alarm are scheduled, wherever the alarm stands in the list.
C5_InvalidTime ==
  \A t \in Tasks : Returned(t) =>
    \A a \in Range(alarms) :
      (a.isEnabled /\ ~ClockTimeOk(a)) =>
        (ScheduledFor(a) = {} /\ ~tasks[t].failed /\ OthersScheduled(a))

\* the run has returned; the first stored alarm is enabled with hour 25, and
\* a later alarm of the same medication has its triggers scheduled
C5_Witness ==
  \E t \in Tasks :
    /\ Returned(t)
    /\ Len(alarms) >= 2
    /\ alarms[1].isEnabled
    /\ ParseTime(alarms[1].time).hours = Num(25)
    /\ alarms[2].medicationId = alarms[1].medicationId
    /\ TriggersOf(alarms[2]) # {}
    /\ TriggersOf(alarms[2]) \subseteq scheduled

----------------------------------------------------------------------------
(* C6 *)

----------------------------------------------------------------------------
(* C7 *)

\* C7 as stated: when expo-notifications rejects a request of a reschedule,
\* every request of the run is still issued (the remaining weekdays of the
\* same alarm and all later alarms), and the reschedule does not throw.
C7_AsClaimed ==
  \A t \in Tasks : Returned(t) =>
    /\ ~tasks[t].failed
    /\ \A i \in 1..Len(tasks[t].plan) : tasks[t].plan[i].request \in tasks[t].attempted

----------------------------------------------------------------------------
(* C8 *)

\* C8: within one reschedule, while a scheduleNotificationAsync call of the
\* run is unresolved no cancelAllScheduledNotificationsAsync call of the run
\* is unresolved; when the first request of the run is issued nothing is
\* scheduled any more; and when the run has returned no call of it is
\* unresolved.
C8_ClearThenRegister ==
  \A t \in Tasks :
    /\ \A p \in pending :
         (p.task = t /\ p.kind = "schedule") =>
           /\ ~\E c \in pending : c.task = t /\ c.kind = "cancelAll"
           /\ tasks[t].attempted = {p.request} => scheduled = {}
    /\ Returned(t) => ~\E p \in pending : p.task = t

\* the first request of a run is in flight, and notifications were scheduled
\* when the run began
C8_Witness ==
  \E p \in pending :
    /\ p.kind = "schedule"
    /\ tasks[p.task].before # {}
    /\ tasks[p.task].attempted = {p.request}

----------------------------------------------------------------------------
(* C9 *)

\* C9 as stated: when handlers overlap, once all of them have finished the
\* scheduled notifications are exactly the weekly triggers of the stored
\* alarms (checked where every handler reschedules: alarmService is set).
C9_AsClaimed ==
  (AllIdle /\ alarmService) => scheduled = Mirror

----------------------------------------------------------------------------
(* C10 *)

\* C10 as stated: createAlarm, the delete-alarm and delete-medication
\* handlers and the reset each run rescheduleAllMedications after their
\* storage change, so that whenever the handlers run one after the other,
\* each to completion, the scheduled notifications are the weekly triggers
\* of the stored alarms once a handler is over.
C10_AsClaimed ==
  AllIdle => scheduled = Mirror

----------------------------------------------------------------------------
(* C11 *)

\* C11: at no time are two weekly triggers scheduled for the same alarm id
\* and weekday, also when an alarm's weekday list names a day twice and when
\* two stored alarms have the same id.
C11_OnePerAlarmWeekday ==
  \A r1, r2 \in scheduled :
    (/\ r1.repeats /\ r2.repeats
     /\ r1.alarmId = r2.alarmId
     /\ r1.identifier[3] = r2.identifier[3]) => r1 = r2

\* a reschedule has returned; two stored alarms have the same id, different
\* times and both Wednesday in their weekday list, one of them naming it
\* twice, and a Wednesday trigger of that id is scheduled
C11_Witness ==
  \E t \in Tasks :
    /\ Returned(t)
    /\ \E i, j \in 1..Len(alarms) :
         /\ i < j
         /\ alarms[i].id = alarms[j].id
         /\ alarms[i].time # alarms[j].time
         /\ alarms[i].isEnabled /\ alarms[j].isEnabled
         /\ 3 \in Range(alarms[i].daysOfWeek) \cap Range(alarms[j].daysOfWeek)
         /\ <<3, 3>> \in {alarms[i].daysOfWeek, alarms[j].daysOfWeek}
         /\ \E r \in scheduled : r.identifier = <<"alarm", alarms[i].id, 3>>

----------------------------------------------------------------------------
(* C12 *)

\* C12: the weekday handed to expo-notifications for a weekly trigger is a
\* bijection of 1..7 (Monday=1 -> 2, ..., Saturday=6 -> 7, Sunday=7 -> 1),
\* and the conversions of the dashboard (today's alarms, next alarm) and of
\* the expected days name the same calendar day: a scheduled trigger falls on
\* today for expo-notifications exactly when its weekday is today's for the
\* dashboard, and exactly when today is one of its expected days.
C12_WeekdayTranslation ==
  /\ \A w \in 1..7 : Cardinality({d \in 1..7 : ExpoWeekday(d) = w}) = 1
  /\ \A r \in scheduled : r.repeats =>
       LET d == r.identifier[3]
       IN /\ d \in 1..7
          /\ r.weekday = <<2, 3, 4, 5, 6, 7, 1>>[d]
          /\ (r.weekday = CalendarWeekday(now.day)) <=> (OurDayOfJs(JsDay(now.day)) = d)
          /\ (r.weekday = CalendarWeekday(now.day)) <=> (JsDay(now.day) = JsDayOfOurs(d))

\* today is a Sunday and the Sunday trigger of an alarm is scheduled next
\* to its Monday trigger
C12_Witness ==
  /\ JsDay(now.day) = 0
  /\ \E r, q \in scheduled :
       /\ r.repeats /\ r.identifier[3] = 7 /\ r.weekday = 1
       /\ q.repeats /\ q.identifier[3] = 1 /\ q.alarmId = r.alarmId

----------------------------------------------------------------------------
(* C13 *)

\* the stored medications with the pill count of medication id one lower
OnePillLess(meds, id) ==
  [i \in 1..Len(meds) |->
     IF meds[i].id = id THEN [meds[i] EXCEPT !.pillCount = meds[i].pillCount - 1]
     ELSE meds[i]]

\* C13: once decreasePillCount(id) has returned: if it returned true, the
\* medication was stored with a pillCount above 0 and is now stored with one
\* pill less, every other medication unchanged; if it returned false, the
\* stored medications are what they were; it returns false for a pillCount
\* of 0, for an id that is not found and after a storage failure, and true
\* for a stored medication with pills left when storage works.  It does
\* not throw: it always returns one of the two.
C13_DecreasePillCount ==
  \A t \in Tasks : tasks[t].success # "none" =>
    LET pre == tasks[t].pre
        m   == FindMedication(pre, tasks[t].mid)
    IN /\ tasks[t].success \in {"true", "false"}
       /\ tasks[t].success = "true" =>
            /\ m # NoMed /\ m.pillCount > 0
            /\ medications = OnePillLess(pre, tasks[t].mid)
       /\ tasks[t].success = "false" => medications = pre
       /\ (m = NoMed \/ m.pillCount = 0 \/ tasks[t].dpFault) => tasks[t].success = "false"
       /\ (m # NoMed /\ m.pillCount > 0 /\ ~tasks[t].dpFault) => tasks[t].success = "true"

\* decreasePillCount has returned true for one of two stored medications
C13_Witness ==
  \E t \in Tasks :
    /\ tasks[t].success = "true"
    /\ Len(tasks[t].pre) = 2
    /\ FindMedication(medications, tasks[t].mid).pillCount = 1

----------------------------------------------------------------------------
(* C14 *)

\* C14 as stated: in every reachable state, after any sequence of
\* add-medication, take, refill, add/delete alarm and reset operations,
\* every stored medication's pillCount is a non-negative integer.
C14_AsClaimed ==
  \A m \in Range(medications) : m.pillCount \in Nat

----------------------------------------------------------------------------
(* C15 *)

\* C15: once handleResetData has completed, the stored medications, alarms
\* and history are empty, nothing is scheduled and a reschedule has no
\* request to issue, and the adherence statistics of every medication that
\* was stored before the reset are all zero, in both revisions.
C15_ResetClearsAll ==
  \A t \in Tasks :
    (tasks[t].op = "handleResetData" /\ tasks[t].pc = "done" /\ ~tasks[t].failed) =>
      /\ medications = <<>> /\ alarms = <<>> /\ history = <<>>
      /\ scheduled = {}
      /\ ResyncPlan(LoadMedications, LoadAlarms) = <<>>
      /\ \A m \in Range(tasks[t].pre) :
           LET stats == StatsOf(m, LoadAlarms, history, now)
           IN \A rev \in {stats.first, stats.windowed} :
                /\ rev.totalAlarms = 0 /\ rev.totalTaken = 0 /\ rev.adherenceRate = 0
                /\ rev.currentStreak = 0 /\ rev.longestStreak = 0 /\ rev.missedDays = 0

\* handleResetData has completed; before it a medication with an alarm and
\* a history entry was stored
C15_Witness ==
  \E t \in Tasks :
    /\ tasks[t].op = "handleResetData" /\ tasks[t].pc = "done"
    /\ tasks[t].preHist # <<>>
    /\ \E m \in Range(tasks[t].pre) :
         /\ m.alarms # <<>>
         /\ \E i \in 1..Len(tasks[t].preHist) : tasks[t].preHist[i].medicationId = m.id

----------------------------------------------------------------------------
(* C16 *)

\* C16 as stated: once the delete-medication handler has completed, no
\* stored alarm has the deleted medication's id and no scheduled
\* notification carries it; and at no step is the medication gone from
\* storage while an alarm of it is still stored.
C16_AsClaimed ==
  /\ \A t \in Tasks :
       (tasks[t].op = "deleteMedication" /\ tasks[t].pc = "done" /\ ~tasks[t].failed) =>
         /\ \A a \in Range(alarms) : a.medicationId # tasks[t].mid
         /\ \A r \in scheduled : r.medicationId # tasks[t].mid
  /\ \A a \in Range(alarms) : \E m \in Range(medications) : m.id = a.medicationId

----------------------------------------------------------------------------
(* C17 *)

\* handler t is one of the three take actions and has ended
TakeEnded(t) ==
  /\ tasks[t].op \in TakeHandlers
  /\ tasks[t].pc = "done"

\* the stored history ends with the entry the handler made for its medication
EntryAppended(t) ==
  /\ tasks[t].recorded
  /\ tasks[t].entry.medicationId = tasks[t].mid
  /\ history # <<>> /\ history[Len(history)] = tasks[t].entry

\* C17 as stated: a take action appends one history entry for the
\* medication if and only if decreasePillCount returned true; with a pill
\* count of 0 no entry is appended, and whenever the stored pill count was
\* decremented an entry is recorded.
C17_AsClaimed ==
  \A t \in Tasks : TakeEnded(t) =>
    /\ tasks[t].success = "true" => EntryAppended(t)
    /\ tasks[t].success # "true" => history = tasks[t].preHist
    /\ FindMedication(tasks[t].pre, tasks[t].mid).pillCount = 0 =>
         history = tasks[t].preHist
    /\ FindMedication(medications, tasks[t].mid).pillCount
         = FindMedication(tasks[t].pre, tasks[t].mid).pillCount - 1 => EntryAppended(t)

----------------------------------------------------------------------------
(* C18 *)

\* C18 as stated: the history is append-only.  Every step leaves the stored
\* history as it is or adds exactly one entry at its end, all earlier
\* entries present and unchanged, also when two recordMedicationTaken calls
\* interleave; only clearHistory (the reset) removes entries.
C18_AsClaimed ==
  [][\/ history' = history
     \/ \E t \in Tasks : /\ tasks[t].pc = "rec_save"
                          /\ history' = Append(history, tasks[t].entry)
     \/ \E t \in Tasks : tasks[t].pc = "rs_clearHistory" /\ history' = <<>>]_vars

----------------------------------------------------------------------------
(* C19 *)

\* the medications the history speaks of, stored or deleted since
MedicationsOf(hist) ==
  {[NoMed EXCEPT !.id = hist[i].medicationId] : i \in 1..Len(hist)}

\* C19 as stated: for every medication, its alarms and the history, the
\* adherenceRate of calculateAdherenceStats is an integer from 0 to 100, in
\* both revisions.
C19_AsClaimed ==
  \A m \in Range(medications) \cup MedicationsOf(history) :
    LET stats == StatsOf(m, alarms, history, now)
    IN /\ stats.first.adherenceRate \in 0..100
       /\ stats.windowed.adherenceRate \in 0..100

----------------------------------------------------------------------------
(* C20 *)

\* the history without the entries of medication id taken on calendar day
WithoutDay(hist, id, day) ==
  SelectSeq(hist, LAMBDA h : ~(h.medicationId = id /\ h.takenAt.day = day))

\* C20 as stated: the entries of one medication taken on one calendar day,
\* two or more, raise totalTaken by one, whatever their times of day and
\* their alarm ids, in both revisions.
C20_AsClaimed ==
  \A m \in MedicationsOf(history) : \A day \in TakenDays(MedicationHistory(history, m.id)) :
    LET rest     == WithoutDay(history, m.id, day)
        with     == StatsOf(m, alarms, history, now)
        without  == StatsOf(m, alarms, rest, now)
    IN Len(history) >= Len(rest) + 2 =>
         /\ with.first.totalTaken = without.first.totalTaken + 1
         /\ with.windowed.totalTaken = without.windowed.totalTaken + 1

----------------------------------------------------------------------------
(* C21 *)

\* loadStatistics of handler t has computed the statistics
StatsLoaded(t) == tasks[t].op = "loadStatistics" /\ tasks[t].pc = "done"

\* the days on which medication id has an entry in the stored history
DaysTaken(id) == {history[i].takenAt.day : i \in {j \in 1..Len(history) : history[j].medicationId = id}}

\* n consecutive days up to and including today are taken, and the day
\* before them is not
RunEndsToday(days, n) ==
  /\ \A k \in 0..(n - 1) : (now.day - k) \in days
  /\ (now.day - n) \notin days

\* C21: the currentStreak of every medication, in both revisions, is the
\* number of consecutive calendar days, counted backward from today, that
\* each have an entry of the medication; it is 0 when today has none.
C21_CurrentStreak ==
  \A t \in Tasks : StatsLoaded(t) =>
    \A i \in 1..Len(tasks[t].stats) :
      LET days == DaysTaken(tasks[t].meds[i].id)
      IN \A rev \in {tasks[t].stats[i].first, tasks[t].stats[i].windowed} :
           /\ rev.currentStreak \in 0..Cardinality(days)
           /\ RunEndsToday(days, rev.currentStreak)
           /\ now.day \notin days => rev.currentStreak = 0

\* statistics were computed with a streak of two days up to today
C21_Witness ==
  \E t \in Tasks :
    /\ StatsLoaded(t)
    /\ \E i \in 1..Len(tasks[t].stats) :
         /\ tasks[t].stats[i].first.currentStreak = 2
         /\ tasks[t].stats[i].windowed.currentStreak = 2

----------------------------------------------------------------------------
(* C22 *)

\* n consecutive dates are all among days
HasRun(days, n) == \E d \in days : \A k \in 0..(n - 1) : (d + k) \in days

\* the length of the longest run of consecutive dates among days
LongestRunOf(days) ==
  IF days = {} THEN 0
  ELSE CHOOSE n \in 1..Cardinality(days) : HasRun(days, n) /\ ~HasRun(days, n + 1)

\* C22 as stated: the longestStreak of every medication, in both revisions,
\* is the length of the longest run of consecutive calendar dates among the
\* distinct days taken.
C22_AsClaimed ==
  \A t \in Tasks : StatsLoaded(t) =>
    \A i \in 1..Len(tasks[t].stats) :
      LET days == DaysTaken(tasks[t].meds[i].id)
      IN /\ tasks[t].stats[i].first.longestStreak = LongestRunOf(days)
         /\ tasks[t].stats[i].windowed.longestStreak = LongestRunOf(days)

----------------------------------------------------------------------------
(* C23 *)

\* C23 as stated: for a medication none of whose alarms is enabled,
\* calculateAdherenceStats returns totalAlarms, totalTaken, adherenceRate,
\* currentStreak, longestStreak and missedDays all 0, also when the
\* medication has history entries.
C23_AsClaimed ==
  \A t \in Tasks : StatsLoaded(t) =>
    \A i \in 1..Len(tasks[t].stats) :
      (\A a \in Range(tasks[t].list) :
         a.medicationId = tasks[t].meds[i].id => ~a.isEnabled) =>
        LET stat == tasks[t].stats[i].first
        IN /\ stat.totalAlarms = 0 /\ stat.totalTaken = 0 /\ stat.adherenceRate = 0
           /\ stat.currentStreak = 0 /\ stat.longestStreak = 0 /\ stat.missedDays = 0

----------------------------------------------------------------------------
(* C24 *)

\* the minutes between a time of day and the nearest occurrence of the
\* alarm's time of day, the day before and the day after included
MinutesFromNearest(alarmMinutes, minute) ==
  LET d == Abs(minute - alarmMinutes)
  IN IF d <= 1440 - d THEN d ELSE 1440 - d

\* C24 as stated: the wasOnTime flag of an entry recorded with an alarm time
\* is true exactly when the recording is within 30 minutes of the occurrence
\* of the alarm time it corresponds to, across midnight too.
C24_AsClaimed ==
  \A t \in Tasks :
    (TakeEnded(t) /\ tasks[t].recorded /\ tasks[t].alarm.time # <<>>
       /\ ~MomentMinutes(tasks[t].alarm.time).nan) =>
      (tasks[t].entry.wasOnTime <=>
         MinutesFromNearest(MomentMinutes(tasks[t].alarm.time).val,
                            tasks[t].entry.takenAt.minute) <= 30)

----------------------------------------------------------------------------
(* C25 *)

\* C25 as stated: when a storage read or write of addMedication or addAlarm
\* has failed, the operation ends as failed and the stored collection is
\* what it was: a failed read is not taken for an empty collection that is
\* saved over the stored one.
C25_AsClaimed ==
  [][\A t \in Tasks :
       /\ (tasks[t].pc = "sm_save" /\ tasks'[t].pc # "sm_save" /\ tasks'[t].fault) =>
            (tasks'[t].failed /\ medications' = medications)
       /\ (tasks[t].pc = "ca_addSave" /\ tasks'[t].pc # "ca_addSave" /\ tasks'[t].fault) =>
            (tasks'[t].failed /\ alarms' = alarms)]_vars

----------------------------------------------------------------------------
(* C26 *)

\* the stored pill count of every medication
PillCounts == {<<m.id, m.pillCount>> : m \in Range(medications)}

\* C26 as stated: no step of createAlarm or of the delete-alarm handler
\* changes the stored pill count of a medication, also when a take has
\* completed between its read of the medication and its write.
C26_AsClaimed ==
  [][\A t \in Tasks :
       (tasks[t].op \in {"createAlarm", "deleteAlarm"} /\ tasks'[t] # tasks[t]) =>
         PillCounts' = PillCounts]_vars

----------------------------------------------------------------------------
(* C27 *)

\* the pill count every medication of SpecTakeRace is created with; none
\* is refilled there
FirstPills == ParseInt(CHOOSE p \in RacePills : TRUE).val

\* C27 as stated: once the take actions on a medication have completed,
\* overlapping or not, the number of its history entries is the number of
\* pills removed from its stock.
C27_AsClaimed ==
  (\A t \in Tasks : ~Busy(t) \/ TakeEnded(t)) =>
    \A m \in Range(medications) :
      Len(MedicationHistory(history, m.id)) = FirstPills - m.pillCount

----------------------------------------------------------------------------
(* C28 *)

\* C28 as stated: once createAlarm, the delete-alarm handler, cancelAlarm
\* and the delete-medication handler have completed, the alarm ids in the
\* embedded list of every stored medication are the ids of the stored
\* alarms of that medication.
C28_AsClaimed ==
  AllIdle =>
    \A m \in Range(medications) :
      Range(m.alarms) = {a.id : a \in {b \in Range(alarms) : b.medicationId = m.id}}

----------------------------------------------------------------------------
(* C29 *)

\* C29: however many times setupNotificationHandlers is called, at most one
\* notification-received listener and at most one notification-response
\* listener are registered, so that a fired alarm leads to at most one
\* navigation of the received listener and a tap starts at most one chain,
\* which navigates at most once.
C29_OneListenerEach ==
  /\ handlers.received <= 1
  /\ handlers.response <= 1
  /\ handlers.receivedNavigations <= 1
  /\ Len(handlers.taps) <= 1
  /\ \A i \in 1..Len(handlers.taps) : handlers.taps[i].navigations <= 1

\* setupNotificationHandlers has been called more than once, and a fired
\* alarm has been navigated to
C29_Witness ==
  /\ handlers.calls >= 2
  /\ handlers.received = 1
  /\ handlers.response = 1
  /\ handlers.receivedNavigations = 1

----------------------------------------------------------------------------
(* C30 *)

====
